---- MODULE Spec2Model ----
(***************************************************************************)
(* graphi: a hapi plugin that serves a GraphQL endpoint.  The model covers *)
(* the schema registry (lib/index.js registerSchema, lib/utils.js          *)
(* makeExecutableSchema / mergeSchemas) and the request dispatcher         *)
(* (lib/index.js graphqlHandler, tryParseVariables, fieldResolver).        *)
(* The GraphQL engine (parse, validate, execute) and graphql-tools'        *)
(* mergeSchemas are libraries; they are modelled by what they do on the    *)
(* documents and schemas enumerated below.                                 *)
(***************************************************************************)
EXTENDS Integers, Sequences, FiniteSets, TLC

VARIABLES schema, resolvers, registered, req, nes, channels, published, call,
          routes, started, authStrategy, formatError, http, build, suspended, tracing

vars ==
  <<schema, resolvers, registered, req, nes, channels, published, call,
    routes, started, authStrategy, formatError, http, build, suspended, tracing>>

\* the router: its route table, whether the pre-start phase has run, and the
\* auth setting of the GraphQL endpoint route
router == <<routes, started, authStrategy>>

\* what a step of a request leaves alone when it resolves fields or reports
\* their timings: the server and what is registered on it, and the other
\* request in flight
untraced ==
  <<schema, resolvers, registered, nes, channels, published, call,
    routes, started, authStrategy, formatError, http, build, suspended>>

\* what the other steps of a request leave alone: the tracing accumulator too
server == <<untraced, tracing>>

\* what the registry, the pre-start phase and publish leave alone besides: the
\* formatError setting, the latest exchange with an HTTP client, and the latest
\* makeExecutableSchema call of the application, the requests in flight and
\* the tracing accumulator
aside == <<formatError, http, build, suspended, tracing>>

---------------------------------------------------------------------------
(* Bounds *)

\* longest selection set of a query document
MaxFields == 2

\* number of registerSchema calls in one server lifetime
MaxRegs == 2

\* number of messages handed to the realtime transport
MaxPublish == 2

---------------------------------------------------------------------------
(* The universe of names *)

RootTypes == {"Query", "Mutation"}

FieldNames == {"person", "people", "createPerson", "nosuch"}

Methods == {"GET", "POST", "PUT", "OPTIONS"}

\* the empty map / plain object {}
EmptyMap == [k \in {} |-> ""]

Range(s) == {s[i] : i \in DOMAIN s}

---------------------------------------------------------------------------
(* Schema documents and resolver maps handed to registerSchema *)

\* test "will overwrite an existing schema": schema1
\*   type Query { person(firstname: String!): Person! }
SchemaA ==
  [types |-> {"Query"},
   fields |-> [t \in RootTypes |-> IF t = "Query" THEN {"person"} ELSE {}],
   nonNull |-> {"person"},
   subscription |-> <<>>]

\* test "will overwrite an existing schema": schema2
\*   type Mutation { createPerson(...): Person! }  type Query { people: [Person] }
SchemaB ==
  [types |-> {"Query", "Mutation"},
   fields |-> [t \in RootTypes |-> IF t = "Query" THEN {"people"} ELSE {"createPerson"}],
   nonNull |-> {"createPerson"},
   subscription |-> <<>>]

\* a schema whose resolver map is keyed by type name:
\*   type Query { person(firstname: String!): Person }
SchemaC ==
  [types |-> {"Query"},
   fields |-> [t \in RootTypes |-> IF t = "Query" THEN {"person"} ELSE {}],
   nonNull |-> {},
   subscription |-> <<>>]

\* resolver maps: key path -> resolver function (named by an identifier)
ResolversA == (<<"person">> :> "getPerson") @@ (<<"people">> :> "getPeople")

ResolversB == (<<"createPerson">> :> "createPerson")

ResolversC == (<<"Query", "person">> :> "getPersonTyped")

RegInputs ==
  {[schema |-> SchemaA, resolvers |-> ResolversA],
   [schema |-> SchemaB, resolvers |-> ResolversB],
   [schema |-> SchemaC, resolvers |-> ResolversC]}

\* a schema whose mutation type has two fields:
\*   type Mutation { createPerson(...): Person  person(...): Person }
\*   type Query { people: [Person] }
SchemaM ==
  [types |-> {"Query", "Mutation"},
   fields |-> [t \in RootTypes |-> IF t = "Query" THEN {"people"}
                                    ELSE {"createPerson", "person"}],
   nonNull |-> {},
   subscription |-> <<>>]

\* SchemaM with the resolver of createPerson, and SchemaA with its resolvers
OverlapInputs ==
  {[schema |-> SchemaM, resolvers |-> ResolversB],
   [schema |-> SchemaA, resolvers |-> ResolversA]}

\* a resolver map that names entries of ResolversA and ResolversC again
ResolversD ==
  (<<"Query", "person">> :> "getPersonLater") @@ (<<"people">> :> "getPeopleLater")

LaterInputs == {[schema |-> SchemaC, resolvers |-> ResolversD]}

\* test "will handle graphql subscription from nes client":
\*   type Subscription { personCreated: Person! }
SchemaS1 ==
  [types |-> {},
   fields |-> [t \in RootTypes |-> {}],
   nonNull |-> {},
   subscription |-> <<[name |-> "personCreated", args |-> <<>>]>>]

\* test "will handle graphql subscription graphi.publish with arguments":
\*   type Subscription { personCreated(firstname: String): Person! }
SchemaS2 ==
  [types |-> {},
   fields |-> [t \in RootTypes |-> {}],
   nonNull |-> {},
   subscription |-> <<[name |-> "personCreated", args |-> <<"firstname">>]>>]

\* two subscription fields, one of them with two arguments:
\*   type Subscription { personUpdated(lastname: String, firstname: String): Person!
\*                       personCreated(firstname: String): Person! }
SchemaS3 ==
  [types |-> {},
   fields |-> [t \in RootTypes |-> {}],
   nonNull |-> {},
   subscription |-> <<[name |-> "personUpdated", args |-> <<"lastname", "firstname">>],
                      [name |-> "personCreated", args |-> <<"firstname">>]>>]

\* subscription schemas are registered without resolvers (resolvers = {})
SubscriptionInputs ==
  {[schema |-> SchemaS1, resolvers |-> EmptyMap],
   [schema |-> SchemaS2, resolvers |-> EmptyMap],
   [schema |-> SchemaS3, resolvers |-> EmptyMap]}

\* the event names handed to publish
EventNames == {"personCreated", "personUpdated", "nosuch"}

\* the objects handed to publish; the last one lacks firstname
Payloads ==
  {[firstname |-> "foo", lastname |-> "bar"],
   [firstname |-> "john", lastname |-> "smith"],
   [lastname |-> "smith"]}

\* an object whose firstname is the empty string
EdgePayloads == {[firstname |-> "", lastname |-> "bar"]}

\* the paths nes clients hold subscriptions on
ClientPaths == {"/personCreated", "/personCreated/john", "/personCreated/foo"}

\* server.plugins.graphi.schema before the first registration (undefined);
\* defined tells whether the value is truthy, graphql whether it is a
\* GraphQLSchema
NoSchema ==
  [defined |-> FALSE,
   graphql |-> FALSE,
   types |-> {},
   fields |-> [t \in RootTypes |-> {}],
   nonNull |-> {},
   subscription |-> <<>>,
   wired |-> EmptyMap]

\* the plain object {} that registerSchema takes for a schema that is not
\* given (line 72: schema = {}): truthy, and no GraphQLSchema
EmptyObject == [NoSchema EXCEPT !.defined = TRUE]

\* registerSchema({ resolvers }) calls, without a schema
ObjectInputs ==
  {[schema |-> EmptyObject, resolvers |-> ResolversA],
   [schema |-> EmptyObject, resolvers |-> ResolversB]}

---------------------------------------------------------------------------
(* Schema registry: lib/utils.js and lib/index.js registerSchema *)

\* typeof schema === 'string': the schema is given as a document
typeofString(s) == "defined" \notin DOMAIN s

\* exports.makeExecutableSchema: builds the schema of a document and attaches
\* every resolver filed under a type name of the document to that type's field
\* (fields[fieldName].resolve = fieldResolver); top-level keys that name no
\* type of the document are skipped.
makeExecutableSchema(doc, resolverMap) ==
  [defined |-> TRUE,
   graphql |-> TRUE,
   types |-> doc.types,
   fields |-> doc.fields,
   nonNull |-> doc.nonNull,
   subscription |-> doc.subscription,
   wired |-> [p \in {q \in DOMAIN resolverMap : Len(q) = 2 /\ q[1] \in doc.types}
                |-> resolverMap[p]]]

\* a merge that keeps the source map only
MergeReplace(dest, src) == src

\* lodash.merge on resolver maps: key by key, nested maps merged, and for a
\* key both maps hold the source (later) value is the one kept.
Merge(dest, src) ==
  [p \in (DOMAIN dest) \cup (DOMAIN src) |-> IF p \in DOMAIN src THEN src[p] ELSE dest[p]]

\* the fields of a merged root type: those of the earlier schema the later one
\* does not declare, then those of the later schema
MergeFields(left, right) ==
  SelectSeq(left, LAMBDA f : \A j \in DOMAIN right : right[j].name # f.name) \o right

\* a merge that keeps the root fields of the later schema only
graphqlToolsMergeSchemasRightOnly(left, right) ==
  [defined |-> TRUE,
   graphql |-> TRUE,
   types |-> left.types \cup right.types,
   fields |-> right.fields,
   nonNull |-> right.nonNull,
   subscription |-> right.subscription,
   wired |-> Merge(left.wired, right.wired)]

\* GraphqlTools.mergeSchemas({ schemas: [schema, extraSchema] }): the root
\* types of the result carry the fields of both schemas; a field both declare
\* is taken from the later schema.
graphqlToolsMergeSchemas(left, right) ==
  [defined |-> TRUE,
   graphql |-> TRUE,
   types |-> left.types \cup right.types,
   fields |-> [t \in RootTypes |-> left.fields[t] \cup right.fields[t]],
   nonNull |-> (left.nonNull \ UNION {right.fields[t] : t \in RootTypes}) \cup right.nonNull,
   subscription |-> MergeFields(left.subscription, right.subscription),
   wired |-> Merge(left.wired, right.wired)]

\* mergeSchemas replacing the active schema
mergeSchemasOverwrite(current, extraSchema) == extraSchema

\* GraphqlTools.mergeSchemas throws on a member of schemas that is neither a
\* GraphQLSchema nor a document
mergeSchemasError(current, extraSchema) ==
  IF current.defined /\ (~current.graphql \/ ~extraSchema.graphql)
  THEN "Error: Invalid schema passed" ELSE ""

\* exports.mergeSchemas
mergeSchemas(current, extraSchema) ==
  IF ~current.defined THEN extraSchema ELSE graphqlToolsMergeSchemas(current, extraSchema)

---------------------------------------------------------------------------
(* Executable schema builder: lib/utils.js makeExecutableSchema,           *)
(* decorateDirectives, createScalar and wrapResolve, on schema documents   *)
(* with types of every kind                                                *)

\* longest list of directives in a schema document
MaxDirectives == 2

\* longest resolver map, in entries
MaxEntries == 2

\* test "converts a graphql schema into executable graphql objects": the kinds
\* of the types the document defines
DocKinds ==
  [Query |-> "object", Person |-> "object", IPerson |-> "interface", People |-> "scalar",
   Ability |-> "enum", Someone |-> "input", SearchResult |-> "union"]

\* the fields of its object, interface and input types and the values of its enum
DocMembers ==
  [Query |-> {"person"}, Person |-> {"firstname", "lastname", "ability"},
   IPerson |-> {"firstname"}, People |-> {}, Ability |-> {"COOK", "PROGRAM"},
   Someone |-> {"name"}, SearchResult |-> {}]

\* the places of a document that can carry a directive: a field of a type
\* (arg is "") or an argument of a field
DirectivePlaces ==
  {[type |-> "Person", field |-> "firstname", arg |-> ""],
   [type |-> "Query", field |-> "person", arg |-> "personname"],
   [type |-> "IPerson", field |-> "firstname", arg |-> ""]}

\* the type every one of these places declares
DeclaredType(place) == "String"

\* the exports of the scalars package
Scalars == {"JoiString", "JoiNumber", "JoiBoolean", "JoiDate", "JoiArray"}

\* directive arguments as the parser leaves them: name, kind of the literal
\* and its text; tests "converts a graphql schema with joi scalars" and "only
\* converts valid Joi directives"
JoiStringArgs ==
  <<[name |-> "min", kind |-> "IntValue", value |-> "2"],
    [name |-> "normalize", kind |-> "StringValue", value |-> "NFC"],
    [name |-> "uppercase", kind |-> "BooleanValue", value |-> "true"]>>

JoiInvalidArgs == <<[name |-> "foo", kind |-> "StringValue", value |-> "bar"]>>

\* the directives a document can carry
Directives ==
  {[place |-> pl, name |-> "JoiString", arguments |-> JoiStringArgs] : pl \in DirectivePlaces}
    \cup {[place |-> pl, name |-> "JoiInvalid", arguments |-> JoiInvalidArgs] : pl \in DirectivePlaces}

\* schema documents: the types above with up to MaxDirectives directives, in
\* the order of the text
BuildDocs ==
  [kinds : {DocKinds}, members : {DocMembers},
   directives : UNION {[1..n -> Directives] : n \in 0..MaxDirectives}]

\* internals.createScalar: nothing when Scalars has no function of that name;
\* otherwise the scalar the factory makes of the arguments, an integer literal
\* parsed to a number and a boolean literal made a boolean
createScalar(name, args) ==
  IF name \notin Scalars THEN [found |-> FALSE, factory |-> "", options |-> <<>>]
  ELSE [found |-> TRUE, factory |-> name,
        options |-> [k \in DOMAIN args |->
                       [name |-> args[k].name,
                        type |-> CASE args[k].kind = "IntValue" -> "number"
                                   [] args[k].kind = "BooleanValue" -> "boolean"
                                   [] OTHER -> "string",
                        value |-> args[k].value]]]

\* the type of a place that no directive has changed
Plain(place) == [found |-> FALSE, factory |-> DeclaredType(place), options |-> <<>>]

RECURSIVE decorateFrom(_, _, _)
\* the directives of the document from the k-th on, applied to the types of
\* the places: only the definitions of kind ObjectTypeDefinition are visited,
\* and a directive createScalar makes nothing of is skipped
decorateFrom(doc, k, types) ==
  IF k > Len(doc.directives) THEN types
  ELSE LET d == doc.directives[k]
           scalar == createScalar(d.name, d.arguments)
       IN IF doc.kinds[d.place.type] # "object" \/ ~scalar.found
          THEN decorateFrom(doc, k + 1, types)
          ELSE decorateFrom(doc, k + 1, [types EXCEPT ![d.place] = scalar])

\* internals.decorateDirectives(astSchema, parsed): the types of the places
\* of the built schema
decorateDirectives(doc) == decorateFrom(doc, 1, [pl \in DirectivePlaces |-> Plain(pl)])

\* the entries of the resolver maps handed to makeExecutableSchema: top-level
\* key, key of the sub-map, and what typeof says of the value; a top-level key
\* that holds a function itself has the sub-key ""
Entries ==
  {[type |-> "Query", field |-> "person", value |-> "function"],
   [type |-> "Query", field |-> "human", value |-> "function"],
   [type |-> "Person", field |-> "firstname", value |-> "function"],
   [type |-> "Person", field |-> "lastname", value |-> "string"],
   [type |-> "IPerson", field |-> "firstname", value |-> "function"],
   [type |-> "IPerson", field |-> "age", value |-> "function"],
   [type |-> "People", field |-> "description", value |-> "function"],
   [type |-> "Ability", field |-> "COOK", value |-> "function"],
   [type |-> "Ability", field |-> "BAKE", value |-> "function"],
   [type |-> "Someone", field |-> "name", value |-> "function"],
   [type |-> "SearchResult", field |-> "person", value |-> "function"],
   [type |-> "Human", field |-> "name", value |-> "function"],
   [type |-> "person", field |-> "", value |-> "function"]}

\* resolver maps, in the order of Object.keys
ResolverMaps == UNION {[1..n -> Entries] : n \in 0..MaxEntries}

\* map[key] = value
SetProperty(map, key, value) ==
  [p \in DOMAIN map \cup {key} |-> IF p = key THEN value ELSE map[p]]

\* the function filed under an entry
Fn(e) == [fn |-> e.type \o "." \o e.field, hook |-> "none"]

\* wrapResolve that leaves the resolver as it is
wrapResolveNone(preResolve, resolve) == resolve

\* internals.wrapResolve.call(preResolve, resolve): the function that calls
\* the hook and then the resolver on the hook's result
wrapResolve(preResolve, resolve) == [resolve EXCEPT !.hook = preResolve]

\* nothing attached, no error
NoneAttached == [error |-> "", resolve |-> EmptyMap, props |-> EmptyMap, values |-> EmptyMap]

RECURSIVE attachSkipUndefined(_, _, _, _, _)
\* attachFrom that skips a field the object or interface type does not define
attachSkipUndefined(doc, rmap, k, preResolve, acc) ==
  IF k > Len(rmap) THEN acc
  ELSE LET e == rmap[k]
           wrapped == IF preResolve # "none" THEN wrapResolve(preResolve, Fn(e)) ELSE Fn(e)
           key == <<e.type, e.field>>
       IN IF e.type \notin DOMAIN doc.kinds \/ e.field = ""
          THEN attachSkipUndefined(doc, rmap, k + 1, preResolve, acc)
          ELSE IF e.value # "function"
          THEN [acc EXCEPT !.error = e.type \o "." \o e.field \o " resolver must be a function"]
          ELSE IF doc.kinds[e.type] = "scalar"
          THEN attachSkipUndefined(doc, rmap, k + 1, preResolve,
                                   [acc EXCEPT !.props = SetProperty(@, key, wrapped)])
          ELSE IF doc.kinds[e.type] = "enum"
          THEN IF e.field \notin doc.members[e.type]
               THEN [acc EXCEPT !.error = e.type \o "." \o e.field
                                            \o " enum definition missing from schema"]
               ELSE attachSkipUndefined(doc, rmap, k + 1, preResolve,
                                        [acc EXCEPT !.values = SetProperty(@, key, wrapped)])
          ELSE IF doc.kinds[e.type] \notin {"object", "interface"}
                  \/ e.field \notin doc.members[e.type]
          THEN attachSkipUndefined(doc, rmap, k + 1, preResolve, acc)
          ELSE attachSkipUndefined(doc, rmap, k + 1, preResolve,
                                   [acc EXCEPT !.resolve = SetProperty(@, key, wrapped)])

RECURSIVE attachFrom(_, _, _, _, _)
\* lines 18-54, from the k-th entry of the resolver map on: a key that names
\* no type of the schema is passed over; a value that is not a function fails
\* the assertion; the function, wrapped when there is a preResolve hook,
\* becomes a property of a scalar type, the value of an enum value (which
\* must exist), or the resolve of a field of an object or interface type
\* (setting it on a field that is not there throws); the entries of other
\* types are passed over
attachFrom(doc, rmap, k, preResolve, acc) ==
  IF k > Len(rmap) THEN acc
  ELSE LET e == rmap[k]
           wrapped == IF preResolve # "none" THEN wrapResolve(preResolve, Fn(e)) ELSE Fn(e)
           key == <<e.type, e.field>>
       IN IF e.type \notin DOMAIN doc.kinds \/ e.field = ""
          THEN attachFrom(doc, rmap, k + 1, preResolve, acc)
          ELSE IF e.value # "function"
          THEN [acc EXCEPT !.error = e.type \o "." \o e.field \o " resolver must be a function"]
          ELSE IF doc.kinds[e.type] = "scalar"
          THEN attachFrom(doc, rmap, k + 1, preResolve,
                          [acc EXCEPT !.props = SetProperty(@, key, wrapped)])
          ELSE IF doc.kinds[e.type] = "enum"
          THEN IF e.field \notin doc.members[e.type]
               THEN [acc EXCEPT !.error = e.type \o "." \o e.field
                                            \o " enum definition missing from schema"]
               ELSE attachFrom(doc, rmap, k + 1, preResolve,
                               [acc EXCEPT !.values = SetProperty(@, key, wrapped)])
          ELSE IF doc.kinds[e.type] \notin {"object", "interface"}
          THEN attachFrom(doc, rmap, k + 1, preResolve, acc)
          ELSE IF e.field \notin doc.members[e.type]
          THEN [acc EXCEPT !.error = "TypeError: Cannot set property 'resolve' of undefined"]
          ELSE attachFrom(doc, rmap, k + 1, preResolve,
                          [acc EXCEPT !.resolve = SetProperty(@, key, wrapped)])

---------------------------------------------------------------------------
(* Subscriptions: lib/utils.js registerSubscriptions and publish, and the   *)
(* nes listener they call (server.subscription, server.publish)            *)

RECURSIVE ParamSegments(_, _)
\* subscriptionPath += `/{${arg.name}}` for each argument from i on
ParamSegments(args, i) ==
  IF i > Len(args) THEN ""
  ELSE "/{" \o args[i] \o "}" \o ParamSegments(args, i + 1)

\* a channel pattern without the parameter segments
subscriptionPathNameOnly(field) == "/" \o field.name

\* the channel pattern of a subscription field
subscriptionPath(field) == "/" \o field.name \o ParamSegments(field.args, 1)

\* what server.subscription(path) adds to the listener's router
Channel(field) ==
  [path |-> subscriptionPath(field), name |-> field.name, args |-> field.args]

\* the router refuses a pattern that has the segments of an existing one
Conflicts(chs, field) ==
  {c \in chs : c.name = field.name /\ Len(c.args) = Len(field.args)}

RECURSIVE SubscribeFields(_, _, _)
\* the loop of registerSubscriptions from field i on: the channels registered
\* when it ends, and the error that ended it, if any
SubscribeFields(chs, fields, i) ==
  IF i > Len(fields) THEN [channels |-> chs, error |-> ""]
  ELSE IF Conflicts(chs, fields[i]) # {}
  THEN [channels |-> chs,
        error |-> "New route " \o subscriptionPath(fields[i]) \o " conflicts with existing "
                    \o (CHOOSE c \in Conflicts(chs, fields[i]) : TRUE).path]
  ELSE SubscribeFields(chs \cup {Channel(fields[i])}, fields, i + 1)

\* exports.registerSubscriptions(server, schema), on the channels the server has
registerSubscriptions(chs, sch) == SubscribeFields(chs, sch.subscription, 1)

RECURSIVE ValueSegments(_, _, _)
\* publishPath += `/${obj[arg.name]}` for each argument from i on
ValueSegments(args, obj, i) ==
  IF i > Len(args) THEN ""
  ELSE "/" \o (IF args[i] \in DOMAIN obj THEN obj[args[i]] ELSE "undefined")
         \o ValueSegments(args, obj, i + 1)

\* the values a parameter segment of a published path can hold
SegmentValues == UNION {Range(obj) : obj \in Payloads} \cup {"undefined"}

\* the router matches a path against a channel pattern: every parameter
\* segment stands for one non-empty path segment
Matches(path, c) ==
  \E vals \in [Range(c.args) -> SegmentValues] :
     path = "/" \o c.name \o ValueSegments(c.args, vals, 1)

\* nes server.publish(path, message): the message goes to the subscribers of
\* that very path when a channel matches it, and to nobody otherwise
serverPublish(chs, path, message) ==
  [path |-> path, message |-> message,
   to |-> IF \E c \in chs : Matches(path, c)
          THEN {s \in ClientPaths : s = path} ELSE {}]

\* publish that returns quietly when the event is not a subscription field
publishSwallow(sch, chs, name, obj) ==
  IF ~sch.defined
  THEN [error |-> "", sent |-> <<>>]
  ELSE IF Len(sch.subscription) = 0
  THEN [error |-> "", sent |-> <<>>]
  ELSE IF \A i \in DOMAIN sch.subscription : sch.subscription[i].name # name
  THEN [error |-> "", sent |-> <<>>]
  ELSE LET field == sch.subscription[CHOOSE i \in DOMAIN sch.subscription :
                                       sch.subscription[i].name = name]
           publishPath == "/" \o name \o ValueSegments(field.args, obj, 1)
       IN [error |-> "", sent |-> <<serverPublish(chs, publishPath, obj)>>]

\* publish that sends every event to the path of its name
publishNameOnly(sch, chs, name, obj) ==
  IF ~sch.defined
  THEN [error |-> "TypeError: Cannot read property '_subscriptionType' of undefined",
        sent |-> <<>>]
  ELSE IF Len(sch.subscription) = 0
  THEN [error |-> "TypeError: Cannot read property 'getFields' of undefined", sent |-> <<>>]
  ELSE IF \A i \in DOMAIN sch.subscription : sch.subscription[i].name # name
  THEN [error |-> "TypeError: Cannot read property 'args' of undefined", sent |-> <<>>]
  ELSE [error |-> "", sent |-> <<serverPublish(chs, "/" \o name, obj)>>]

\* exports.publish(server)(name, obj): the error it throws, if any, and what
\* it hands to server.publish
publish(sch, chs, name, obj) ==
  IF ~sch.defined
  THEN [error |-> "TypeError: Cannot read property '_subscriptionType' of undefined",
        sent |-> <<>>]
  ELSE IF Len(sch.subscription) = 0
  THEN [error |-> "TypeError: Cannot read property 'getFields' of undefined", sent |-> <<>>]
  ELSE IF \A i \in DOMAIN sch.subscription : sch.subscription[i].name # name
  THEN [error |-> "TypeError: Cannot read property 'args' of undefined", sent |-> <<>>]
  ELSE LET field == sch.subscription[CHOOSE i \in DOMAIN sch.subscription :
                                       sch.subscription[i].name = name]
           publishPath == "/" \o name \o ValueSegments(field.args, obj, 1)
       IN [error |-> "", sent |-> <<serverPublish(chs, publishPath, obj)>>]

---------------------------------------------------------------------------
(* Route-to-resolver bridge: lib/index.js onPreStart *)

\* the route exports.register adds for the GraphQL endpoint
EndpointRoute ==
  [method |-> "*", path |-> "/graphql", prefix |-> "", tags |-> {}, auth |-> "false",
   reply |-> "ok"]

\* test "will handle graphql POST requests with mutations served from
\* mutation routes": POST /createPerson tagged graphql
TaggedCreatePerson ==
  [method |-> "post", path |-> "/createPerson", prefix |-> "", tags |-> {"graphql"},
   auth |-> "false", reply |-> "ok"]

\* method graphql, path /createPerson, a handler that answers 400
GraphqlCreatePerson ==
  [method |-> "graphql", path |-> "/createPerson", prefix |-> "", tags |-> {},
   auth |-> "false", reply |-> "badRequest"]

\* test "will handle graphql requests to resolver routes inside a plugin when
\* configured with prefix": the route of a plugin registered under /foo
PluginCreatePerson ==
  [method |-> "graphql", path |-> "/foo/createPerson", prefix |-> "/foo", tags |-> {},
   auth |-> "false", reply |-> "ok"]

\* test "route resolvers support separate auth schemes": /person with auth 'test'
AuthPerson ==
  [method |-> "graphql", path |-> "/person", prefix |-> "", tags |-> {}, auth |-> "test",
   reply |-> "ok"]

\* the same test's route with auth: false
OpenPeople ==
  [method |-> "graphql", path |-> "/people", prefix |-> "", tags |-> {}, auth |-> "false",
   reply |-> "ok"]

\* a route whose handler answers 404 without a body
EmptyPeople == [OpenPeople EXCEPT !.reply = "empty"]

\* /people with auth 'test'
AuthPeople == [OpenPeople EXCEPT !.auth = "test"]

\* GET /person tagged graphql: the path of AuthPerson under another method
TaggedGetPerson ==
  [method |-> "get", path |-> "/person", prefix |-> "", tags |-> {"api", "graphql"},
   auth |-> "false", reply |-> "ok"]

\* a route that has neither the method nor the tag
PlainPeople ==
  [method |-> "post", path |-> "/people", prefix |-> "", tags |-> {"api"}, auth |-> "false",
   reply |-> "ok"]

\* server.table() when the pre-start phase runs: the routes the application
\* has added, after the endpoint route
RouteTables ==
  {<<EndpointRoute>> \o t :
     t \in {<<TaggedCreatePerson>>,
            <<GraphqlCreatePerson, PlainPeople>>,
            <<PluginCreatePerson, OpenPeople>>,
            <<AuthPerson, OpenPeople>>,
            <<AuthPerson, EmptyPeople>>,
            <<TaggedGetPerson, AuthPerson>>,
            <<TaggedGetPerson, AuthPeople>>,
            <<GraphqlCreatePerson, PluginCreatePerson>>}}

\* the longest route table
MaxRoutes == 3

\* the names of the resolvers onPreStart makes, one closure per route
BridgeName == [k \in 1..MaxRoutes |-> "bridge of route " \o ToString(k)]

\* what a path can begin with, up to and including a `/`
Heads == {"/", "/foo/", "/test/"}

\* what can follow: a name, or a prefix and a name
Tails ==
  LET names == FieldNames \cup {"graphql", "graphiql", ""}
  IN names \cup {"foo/" \o t : t \in names} \cup {"test/" \o t : t \in names}

\* String.prototype.substr(n) on a route path
substr(path, n) ==
  CHOOSE t \in Tails : \E h \in Heads : Len(h) = n /\ h \o t = path

\* tags.indexOf('graphql') === -1 and route.method !== 'graphql' are both
\* true of a route that is skipped
Participates(route) == route.method = "graphql" \/ "graphql" \in route.tags

\* resolverPath that forgets the realm prefix
resolverPathKeepPrefix(route) == substr(route.path, 1)

\* the key under which a route's resolver is stored (lines 118-119)
resolverPath(route) ==
  IF route.prefix # "" THEN substr(route.path, Len(route.prefix) + 1)
  ELSE substr(route.path, 1)

\* resolvers[key] = value on the resolver map
Assign(rmap, key, value) ==
  [p \in {q \in DOMAIN rmap : q[1] # key} \cup {<<key>>} |->
     IF p = <<key>> THEN value ELSE rmap[p]]

RECURSIVE forEachRoute(_, _, _)
\* server.table().forEach from route k on
forEachRoute(rmap, table, k) ==
  IF k > Len(table) THEN rmap
  ELSE IF ~Participates(table[k]) THEN forEachRoute(rmap, table, k + 1)
  ELSE forEachRoute(Assign(rmap, resolverPath(table[k]), BridgeName[k]), table, k + 1)

---------------------------------------------------------------------------
(* Requests *)

\* the value of source.variables
VarInputs ==
  {"absent", "emptyString", "object", "jsonObject", "jsonBoomLike", "jsonNumber", "invalid"}

NoDup(s) == \A i, j \in DOMAIN s : i # j => s[i] # s[j]

\* selection sets: 1..MaxFields pairwise distinct field names, in document order
Selections == {s \in UNION {[1..n -> FieldNames] : n \in 1..MaxFields} : NoDup(s)}

AbsentQuery == [kind |-> "absent", op |-> "query", fields |-> <<>>, directive |-> "none"]

SyntaxErrorQuery == [kind |-> "syntaxError", op |-> "query", fields |-> <<>>, directive |-> "none"]

\* syntactically valid documents with one operation
Docs ==
  [kind : {"doc"}, op : {"query", "mutation"}, fields : Selections,
   directive : {"none", "unknown"}]

QueryTexts == {AbsentQuery, SyntaxErrorQuery} \cup Docs

\* the plain object {}
EmptySource == [query |-> AbsentQuery, variables |-> "absent"]

PlainDoc == [kind |-> "doc", op |-> "query", fields |-> <<"person">>, directive |-> "none"]

UnknownFieldDoc == [kind |-> "doc", op |-> "query", fields |-> <<"nosuch">>, directive |-> "none"]

PlainSource == [query |-> PlainDoc, variables |-> "absent"]

\* what request.query or request.payload holds: any query text without
\* variables, and any variables with a missing, a malformed, a valid and an
\* invalid query text
Sources ==
  [query : QueryTexts, variables : {"absent"}]
    \cup [query : {AbsentQuery, SyntaxErrorQuery, PlainDoc, UnknownFieldDoc},
          variables : VarInputs]

\* a request carries URL query parameters and possibly a body
Requests ==
  [method : Methods, query : Sources, hasPayload : {FALSE}, payload : {EmptySource},
   traced : BOOLEAN, headers : {"none"}]
    \cup [method : Methods, query : {EmptySource, PlainSource}, hasPayload : {TRUE},
          payload : Sources, traced : BOOLEAN, headers : {"none"}]
    \cup [method : Methods, query : Sources, hasPayload : {TRUE}, payload : {PlainSource},
          traced : BOOLEAN, headers : {"none"}]

\* the documents sent to a server with bridged routes: the fields the routes
\* of RouteTables serve, in queries and mutations
BridgeDocs ==
  {d \in Docs : d.directive = "none"
                 /\ Range(d.fields) \subseteq {"person", "people", "createPerson"}}

\* POST /graphql with and without an authorization header
BridgeRequests ==
  [method : {"POST"}, query : {EmptySource}, hasPayload : {TRUE},
   payload : [query : BridgeDocs, variables : {"absent"}], traced : {FALSE},
   headers : {"none", "bearer"}]

\* the documents of requests that overlap: a mutation with two fields, and
\* queries with one and two fields
OverlapDocs ==
  {[kind |-> "doc", op |-> "mutation", fields |-> <<"createPerson", "person">>,
    directive |-> "none"],
   [kind |-> "doc", op |-> "query", fields |-> <<"people">>, directive |-> "none"],
   [kind |-> "doc", op |-> "query", fields |-> <<"person", "people">>, directive |-> "none"]}

\* POST /graphql with such a document
OverlapRequests ==
  [method : {"POST"}, query : {EmptySource}, hasPayload : {TRUE},
   payload : [query : OverlapDocs, variables : {"absent"}], traced : {FALSE},
   headers : {"none"}]

---------------------------------------------------------------------------
(* The GraphQL engine, as the dispatcher uses it *)

OpType(op) == IF op = "mutation" THEN "Mutation" ELSE "Query"

\* Graphql.parse(source.query): succeeds on a document; a missing query or a
\* malformed text throws
graphqlParseOk(q) == q.kind = "doc"

graphqlParseMessage(q) ==
  IF q.kind = "absent" THEN "TypeError: Must provide Source. Received: undefined"
  ELSE "GraphQLError: Syntax Error: Unterminated string."

RECURSIVE FieldDiagnostics(_, _, _)
\* one diagnostic per selected field the operation's root type does not define;
\* fields of an operation whose root type the schema lacks are not checked
FieldDiagnostics(sch, doc, i) ==
  IF i > Len(doc.fields) THEN <<>>
  ELSE LET t == OpType(doc.op)
           rest == FieldDiagnostics(sch, doc, i + 1)
       IN IF t \in sch.types /\ doc.fields[i] \notin sch.fields[t]
          THEN <<"Cannot query field \"" \o doc.fields[i] \o "\" on type \"" \o t \o "\".">> \o rest
          ELSE rest

\* Graphql.validate(schema, queryAST): the list of validation errors
graphqlValidate(sch, doc) ==
  FieldDiagnostics(sch, doc, 1)
    \o (IF doc.directive = "unknown" THEN <<"Unknown directive \"foo\".">> ELSE <<>>)

RECURSIVE Join(_, _)
\* Array.prototype.join
Join(list, sep) ==
  IF Len(list) = 0 THEN ""
  ELSE IF Len(list) = 1 THEN list[1]
  ELSE list[1] \o sep \o Join(Tail(list), sep)

\* what a resolver invocation can do
ResolverOutcomes == {"value", "promise", "throws", "rejects", "errorValue"}

\* boom is a promise that resolves with an error value
Deferred(out) == out \in {"promise", "rejects", "boom"}

Failed(out) == out \in {"throws", "rejects", "errorValue", "boom"}

\* the value a resolver produces when it succeeds
ValueOf(resolver) == "value of " \o resolver

\* no internal call was made
NoReply == [statusCode |-> 0, hasResult |-> FALSE, message |-> "", error |-> "", result |-> ""]

\* the routes the router finds for a method and a path
Matching(method, url) ==
  {k \in DOMAIN routes : routes[k].method \in {method, "*"} /\ routes[k].path = url}

\* request.server.inject({ method, url, payload, headers }): the router picks
\* the route of that method and path, the route's auth strategy looks at the
\* headers, and the handler answers
inject(method, url, headers) ==
  LET matching == Matching(method, url)
  IN IF matching = {}
     THEN [statusCode |-> 404, hasResult |-> TRUE, message |-> "Not Found",
           error |-> "Not Found", result |-> ""]
     ELSE LET route == routes[CHOOSE k \in matching : TRUE]
          IN IF route.auth = "test" /\ headers = "none"
             THEN [statusCode |-> 401, hasResult |-> TRUE,
                   message |-> "Missing authentication", error |-> "Unauthorized",
                   result |-> ""]
             ELSE CASE route.reply = "ok" ->
                         [statusCode |-> 200, hasResult |-> TRUE, message |-> "",
                          error |-> "", result |-> "result of " \o method \o " " \o url]
                    [] route.reply = "badRequest" ->
                         [statusCode |-> 400, hasResult |-> TRUE, message |-> "Invalid person",
                          error |-> "Bad Request", result |-> ""]
                    [] route.reply = "empty" ->
                         [statusCode |-> 404, hasResult |-> FALSE, message |-> "",
                          error |-> "", result |-> ""]

\* the resolvers onPreStart makes
IsBridge(r) == \E k \in 1..MaxRoutes : BridgeName[k] = r

RouteOf(r) == CHOOSE k \in 1..MaxRoutes : BridgeName[k] = r

\* the arguments of a field, which the engine hands to its resolver
ArgsOf(fieldName) == "args of " \o fieldName

\* bridgeResolver that returns the result of the call whatever its status
bridgeResolverAnyStatus(k, fieldName, headers) ==
  LET url == routes[k].prefix \o "/" \o fieldName
      res == inject(routes[k].method, url, headers)
  IN [outcome |-> "promise", reply |-> res, url |-> url,
      injected |-> <<[method |-> routes[k].method, url |-> url,
                      payload |-> ArgsOf(fieldName), headers |-> headers]>>]

\* bridgeResolver that calls the route of a tagged route with the method graphql
bridgeResolverGraphqlMethod(k, fieldName, headers) ==
  LET url == routes[k].prefix \o "/" \o fieldName
      res == inject("graphql", url, headers)
      injected == <<[method |-> "graphql", url |-> url,
                     payload |-> ArgsOf(fieldName), headers |-> headers]>>
  IN IF res.statusCode < 400
     THEN [outcome |-> "promise", reply |-> res, url |-> url, injected |-> injected]
     ELSE IF ~res.hasResult
     THEN [outcome |-> "rejects",
           reply |-> [res EXCEPT !.message = "TypeError: Cannot read property 'message' of null"],
           url |-> url, injected |-> injected]
     ELSE [outcome |-> "boom", reply |-> res, url |-> url, injected |-> injected]

\* lines 89-109: the resolver made for route k, called for a field: the value
\* of the promise it returns, and the calls it has made into the router with
\* the method and the prefix of its route, the field's arguments as payload and
\* the headers of the request; res.result.message throws when the response
\* has no body
bridgeResolver(k, fieldName, headers) ==
  LET url == routes[k].prefix \o "/" \o fieldName
      res == inject(routes[k].method, url, headers)
      injected == <<[method |-> routes[k].method, url |-> url,
                     payload |-> ArgsOf(fieldName), headers |-> headers]>>
  IN IF res.statusCode < 400
     THEN [outcome |-> "promise", reply |-> res, url |-> url, injected |-> injected]
     ELSE IF ~res.hasResult
     THEN [outcome |-> "rejects",
           reply |-> [res EXCEPT !.message = "TypeError: Cannot read property 'message' of null"],
           url |-> url, injected |-> injected]
     ELSE [outcome |-> "boom", reply |-> res, url |-> url, injected |-> injected]

\* the value a field's resolver call has produced
FieldValue(inv) == IF inv.reply.statusCode > 0 THEN inv.reply.result ELSE ValueOf(inv.resolver)

\* internals.fieldResolver: Graphql.defaultFieldResolver on the root value,
\* which is the resolver map: the property named like the field, if any
fieldResolver(rmap, f) == IF <<f>> \in DOMAIN rmap THEN rmap[<<f>>] ELSE "none"

\* the function the engine calls for a root field: the field's own resolve
\* when the schema carries one, otherwise the fieldResolver passed to execute
ResolverOf(sch, rmap, t, f) ==
  IF <<t, f>> \in DOMAIN sch.wired THEN sch.wired[<<t, f>>] ELSE fieldResolver(rmap, f)

\* a field whose completed value is an error or a null
FieldFailed(sch, doc, ex, i) ==
  /\ i \in ex.settled
  /\ \/ Failed(ex.invoked[i].outcome)
     \/ ex.invoked[i].outcome = "undefined" /\ doc.fields[i] \in sch.nonNull

\* an error on a non-null root field empties the whole data
NonNullFailure(sch, doc, ex) ==
  \E i \in ex.settled :
     /\ doc.fields[i] \in sch.nonNull
     /\ Failed(ex.invoked[i].outcome) \/ ex.invoked[i].outcome = "undefined"

\* line 173: internals.fieldResolver(request) is handed to Graphql.execute as
\* its fieldResolver argument, which the engine calls for the fields that carry
\* no resolve of their own (fieldDef.resolve || exeContext.fieldResolver);
\* makeExecutableSchema gives a field a resolve of its own
ViaFieldResolver(sch, t, f) == <<t, f>> \notin DOMAIN sch.wired

\* what happens, in order, when the engine resolves field f.  Through
\* internals.fieldResolver: the preFieldResolver notification, the default
\* resolution (which calls the root value's function when it has one), and,
\* when that has returned, the postFieldResolver notification.  A field with
\* a resolve of its own: that call alone.
FieldSteps(via, f, r, out) ==
  LET resolve == IF r = "none" THEN <<>> ELSE <<[event |-> "resolve", field |-> f]>>
  IN IF via
     THEN <<[event |-> "preFieldResolver", field |-> f]>> \o resolve
            \o (IF out = "throws" THEN <<>>
                ELSE <<[event |-> "postFieldResolver", field |-> f]>>)
     ELSE resolve

RECURSIVE Walk(_, _, _, _, _, _)
\* executeFields / executeFieldsSerially from field i on: each field's resolver
\* is called in document order; a query goes on past a deferred value, a
\* mutation waits for it; an error on a non-null field ends the walk
Walk(sch, rmap, doc, outs, i, ex) ==
  IF i > Len(doc.fields) THEN ex
  ELSE LET f == doc.fields[i]
           r == ResolverOf(sch, rmap, OpType(doc.op), f)
           called == IF IsBridge(r) THEN bridgeResolver(RouteOf(r), f, req.input.headers)
                     ELSE [outcome |-> IF r = "none" THEN "undefined" ELSE outs[i],
                           reply |-> NoReply, url |-> "", injected |-> <<>>]
           out == called.outcome
           ex1 == [ex EXCEPT !.invoked = @ @@ (i :> [resolver |-> r, outcome |-> out,
                                                     reply |-> called.reply,
                                                     url |-> called.url,
                                                     injected |-> called.injected]),
                             !.settled = IF Deferred(out) THEN @ ELSE @ \cup {i},
                             !.trace = @ \o FieldSteps(ViaFieldResolver(sch, OpType(doc.op), f),
                                                       f, r, out)]
       IN IF NonNullFailure(sch, doc, ex1) THEN ex1
          ELSE IF Deferred(out) /\ doc.op = "mutation" THEN ex1
          ELSE Walk(sch, rmap, doc, outs, i + 1, ex1)

RECURSIVE Pushed(_, _, _, _, _)
\* internals.fieldResolver, lines 249-257: each call of the wrapper pushes an
\* entry with the field's name onto tracingResult.tracingResolvers.  The
\* entries of the fields from i on that the engine has resolved through the
\* wrapper between two points of an execution, in order; by names the slot of
\* the request they were recorded for
Pushed(sch, doc, before, after, i) ==
  IF i > Len(doc.fields) THEN <<>>
  ELSE (IF /\ i \in DOMAIN after.invoked
           /\ i \notin DOMAIN before.invoked
           /\ ViaFieldResolver(sch, OpType(doc.op), doc.fields[i])
        THEN <<[fieldName |-> doc.fields[i], by |-> "req"]>>
        ELSE <<>>) \o Pushed(sch, doc, before, after, i + 1)

\* the accumulator after such a stretch of execution: `if (tracing)`
Trace(tr, sch, doc, before, after) ==
  IF tr.enabled
  THEN [tr EXCEPT !.tracingResolvers = @ \o Pushed(sch, doc, before, after, 1)]
  ELSE tr

\* lines 196-209: one row of the table per entry of the accumulator; own tells
\* whether the entry was recorded for the request that prints the table (the
\* rows are printed by duration, which is not kept here)
Rows(entries) ==
  {[fieldName |-> entries[k].fieldName, own |-> entries[k].by = "req", entry |-> k] :
     k \in DOMAIN entries}

\* lines 191-213: with tracing on, the table is printed and the accumulator
\* is replaced by an empty one
Report(tr) == IF tr.enabled THEN Rows(tr.tracingResolvers) ELSE {}

Reset(tr) == IF tr.enabled THEN [tr EXCEPT !.tracingResolvers = <<>>] ELSE tr

\* execution has produced its result
ExecFinished(sch, doc, ex) ==
  \/ ex.rootError
  \/ NonNullFailure(sch, doc, ex)
  \/ ex.settled = DOMAIN doc.fields

RECURSIVE ExecErrors(_, _, _, _)
\* result.errors
ExecErrors(sch, doc, ex, i) ==
  IF i > Len(doc.fields) THEN <<>>
  ELSE (IF FieldFailed(sch, doc, ex, i)
        THEN <<[field |-> doc.fields[i],
                message |-> IF ex.invoked[i].outcome = "undefined"
                            THEN "Cannot return null for non-nullable field"
                            ELSE IF ex.invoked[i].reply.statusCode > 0
                            THEN ex.invoked[i].reply.message
                            ELSE ex.invoked[i].outcome,
                statusCode |-> IF ex.invoked[i].outcome = "boom"
                               THEN ex.invoked[i].reply.statusCode ELSE 0,
                data |-> IF ex.invoked[i].outcome = "boom"
                         THEN [error |-> ex.invoked[i].reply.error, url |-> ex.invoked[i].url]
                         ELSE [error |-> "", url |-> ""]]>>
        ELSE <<>>) \o ExecErrors(sch, doc, ex, i + 1)

\* ExecResult that does not take the value of a deferred result
ExecResultNoAwait(sch, doc, ex) ==
  IF ex.rootError
  THEN [dataNull |-> TRUE, data |-> EmptyMap,
        errors |-> <<[field |-> "", message |-> "Schema is not configured for mutations.",
                      statusCode |-> 0, data |-> [error |-> "", url |-> ""]]>>]
  ELSE [dataNull |-> NonNullFailure(sch, doc, ex),
        data |-> IF NonNullFailure(sch, doc, ex) THEN EmptyMap
                 ELSE [f \in Range(doc.fields) |->
                         LET i == CHOOSE j \in DOMAIN doc.fields : doc.fields[j] = f
                         IN IF ex.invoked[i].outcome = "value"
                            THEN FieldValue(ex.invoked[i]) ELSE "null"],
        errors |-> ExecErrors(sch, doc, ex, 1)]

\* the ExecutionResult of Graphql.execute
ExecResult(sch, doc, ex) ==
  IF ex.rootError
  THEN [dataNull |-> TRUE, data |-> EmptyMap,
        errors |-> <<[field |-> "", message |-> "Schema is not configured for mutations.",
                      statusCode |-> 0, data |-> [error |-> "", url |-> ""]]>>]
  ELSE [dataNull |-> NonNullFailure(sch, doc, ex),
        data |-> IF NonNullFailure(sch, doc, ex) THEN EmptyMap
                 ELSE [f \in Range(doc.fields) |->
                         LET i == CHOOSE j \in DOMAIN doc.fields : doc.fields[j] = f
                         IN IF ex.invoked[i].outcome \in {"value", "promise"}
                            THEN FieldValue(ex.invoked[i]) ELSE "null"],
        errors |-> ExecErrors(sch, doc, ex, 1)]

---------------------------------------------------------------------------
(* Request dispatcher: lib/index.js graphqlHandler *)

\* tryParseVariables swallowing the JSON.parse error
tryParseVariablesSwallow(input) ==
  CASE input = "absent" -> "undefined"
    [] input = "emptyString" -> "emptyString"
    [] input = "object" -> "object"
    [] input = "jsonObject" -> "object"
    [] input = "jsonBoomLike" -> "boomLikeObject"
    [] input = "jsonNumber" -> "number"
    [] input = "invalid" -> "undefined"

\* internals.tryParseVariables: a falsy or non-string input is returned as
\* it is, a string is JSON.parsed, a parse failure yields Boom.badRequest
tryParseVariables(input) ==
  CASE input = "absent" -> "undefined"
    [] input = "emptyString" -> "emptyString"
    [] input = "object" -> "object"
    [] input = "jsonObject" -> "object"
    [] input = "jsonBoomLike" -> "boomLikeObject"
    [] input = "jsonNumber" -> "number"
    [] input = "invalid" -> "Boom400"

\* variables && variables.isBoom
variablesIsBoom(v) == v \in {"Boom400", "boomLikeObject"}

\* no span: finished counts the calls of span.finish(), logged is the number
\* of log entries the span had at the first of them
NoSpan == [started |-> FALSE, log |-> <<>>, finished |-> 0, logged |-> 0]

\* span.finish(), when a span is open
Finish(span) ==
  IF span.started
  THEN [span EXCEPT !.finished = @ + 1,
                    !.logged = IF span.finished = 0 THEN Len(span.log) ELSE @]
  ELSE span

\* SpanError that finishes the span without logging the error
SpanErrorNoLog(span, method) == Finish(span)

NoExec == [rootError |-> FALSE, invoked |-> <<>>, settled |-> {}, trace |-> <<>>]

NoResult == [dataNull |-> FALSE, data |-> EmptyMap, errors |-> <<>>]

NoResponse == [kind |-> "none", status |-> 0, message |-> "", result |-> NoResult]

\* settings.tracing and settings.tracingResult (lines 19-22) by default:
\* tracing off, no entry in tracingResolvers
NoTracing == [enabled |-> FALSE, tracingResolvers |-> <<>>]

\* no request: resolvers holds the entries the resolver map had when the
\* handler read the reference to it (line 140), report the rows of the table
\* the handler printed (lines 192-211)
IdleRequest ==
  [pc |-> "idle",
   input |-> [method |-> "GET", query |-> EmptySource, hasPayload |-> FALSE,
              payload |-> EmptySource, traced |-> FALSE, headers |-> "none"],
   span |-> NoSpan,
   schema |-> NoSchema,
   registrations |-> 0,
   source |-> EmptySource,
   variables |-> "undefined",
   stages |-> <<>>,
   exec |-> NoExec,
   formatCalls |-> 0,
   resolvers |-> EmptyMap,
   report |-> {},
   response |-> NoResponse]

\* h.continue
Continue == [NoResponse EXCEPT !.kind = "continue", !.status = 200]

\* Boom.badRequest(message)
BadRequest(message) == [NoResponse EXCEPT !.kind = "boom", !.status = 400, !.message = message]

\* an exception that leaves the handler
Unhandled(message) == [NoResponse EXCEPT !.kind = "exception", !.status = 500, !.message = message]

\* span.log({ event: 'error', method }) followed by span.finish(), when a span is open
SpanError(span, method) ==
  IF span.started
  THEN Finish([span EXCEPT !.log = Append(@, "error:" \o method)])
  ELSE span

\* GraphqlHandlerBegin reading the URL query parameters for every method
GraphqlHandlerBeginQueryOnly(r) ==
  /\ IF r.method = "OPTIONS"
     THEN req' = [IdleRequest EXCEPT !.pc = "done", !.input = r, !.response = Continue]
     ELSE req' = [IdleRequest EXCEPT
                    !.pc = "decode",
                    !.input = r,
                    !.span = IF r.traced
                             THEN [started |-> TRUE, log |-> <<"onGraphQL">>, finished |-> 0,
                                   logged |-> 0]
                             ELSE NoSpan,
                    !.schema = schema,
                    !.registrations = Len(registered),
                    !.resolvers = resolvers,
                    !.source = r.query]
  /\ UNCHANGED server

\* GraphqlHandlerBegin without the OPTIONS gate
GraphqlHandlerBeginNoGate(r) ==
  /\ req' = [IdleRequest EXCEPT
               !.pc = "decode",
               !.input = r,
               !.span = IF r.traced
                        THEN [started |-> TRUE, log |-> <<"onGraphQL">>, finished |-> 0,
                                   logged |-> 0]
                        ELSE NoSpan,
               !.schema = schema,
                    !.registrations = Len(registered),
                    !.resolvers = resolvers,
               !.source = IF r.method = "GET" THEN r.query
                          ELSE IF r.hasPayload THEN r.payload ELSE EmptySource]
  /\ UNCHANGED server

\* lines 124-141: the method gate, the request span, the server's schema and
\* the source of query and variables; registrations notes how many
\* registerSchema calls the schema read here is the result of
GraphqlHandlerBegin(r) ==
  /\ IF r.method = "OPTIONS"
     THEN req' = [IdleRequest EXCEPT !.pc = "done", !.input = r, !.response = Continue]
     ELSE req' = [IdleRequest EXCEPT
                    !.pc = "decode",
                    !.input = r,
                    !.span = IF r.traced
                             THEN [started |-> TRUE, log |-> <<"onGraphQL">>, finished |-> 0,
                                   logged |-> 0]
                             ELSE NoSpan,
                    !.schema = schema,
                    !.registrations = Len(registered),
                    !.resolvers = resolvers,
                    !.source = IF r.method = "GET" THEN r.query
                               ELSE IF r.hasPayload THEN r.payload ELSE EmptySource]
  /\ UNCHANGED server

\* Boom.unauthorized('Missing authentication') from the auth strategy
Unauthorized ==
  [NoResponse EXCEPT !.kind = "boom", !.status = 401, !.message = "Missing authentication"]

\* RouteRequest that hands every request to the handler
RouteRequestNoAuth(r) == GraphqlHandlerBegin(r)

\* lines 45-52: the endpoint route carries auth: settings.authStrategy; the
\* router authenticates a request before it calls the route's handler
RouteRequest(r) ==
  IF authStrategy # "false" /\ r.headers = "none"
  THEN /\ req' = [IdleRequest EXCEPT !.pc = "done", !.input = r, !.response = Unauthorized]
       /\ UNCHANGED server
  ELSE GraphqlHandlerBegin(r)

\* lines 143-151
DecodeVariables ==
  /\ req.pc = "decode"
  /\ LET variables == tryParseVariables(req.source.variables)
     IN IF variablesIsBoom(variables)
        THEN req' = [req EXCEPT
                       !.pc = "done",
                       !.stages = Append(@, "decode"),
                       !.variables = variables,
                       !.span = SpanError(@, "tryParseVariables"),
                       !.response = IF variables = "Boom400"
                                    THEN BadRequest("Unable to JSON.parse variables")
                                    ELSE [NoResponse EXCEPT !.kind = "variables", !.status = 200]]
        ELSE req' = [req EXCEPT
                       !.pc = "parse",
                       !.stages = Append(@, "decode"),
                       !.variables = variables]
  /\ UNCHANGED server

\* ParseQuery without the try/catch around Graphql.parse
ParseQueryNoCatch ==
  /\ req.pc = "parse"
  /\ IF graphqlParseOk(req.source.query)
     THEN req' = [req EXCEPT !.pc = "validate", !.stages = Append(@, "parse")]
     ELSE req' = [req EXCEPT
                    !.pc = "done",
                    !.stages = Append(@, "parse"),
                    !.response = Unhandled(graphqlParseMessage(req.source.query))]
  /\ UNCHANGED server

\* lines 153-162
ParseQuery ==
  /\ req.pc = "parse"
  /\ IF graphqlParseOk(req.source.query)
     THEN req' = [req EXCEPT !.pc = "validate", !.stages = Append(@, "parse")]
     ELSE req' = [req EXCEPT
                    !.pc = "done",
                    !.stages = Append(@, "parse"),
                    !.span = SpanError(@, "graphql.parse"),
                    !.response = BadRequest(graphqlParseMessage(req.source.query))]
  /\ UNCHANGED server

\* ValidateQuery without the early return on validation errors
ValidateQueryNoReturn ==
  /\ req.pc = "validate"
  /\ req' = [req EXCEPT !.pc = "execute", !.stages = Append(@, "validate")]
  /\ UNCHANGED server

\* ValidateQuery reporting the first validation error only
ValidateQueryFirstOnly ==
  /\ req.pc = "validate"
  /\ IF ~req.schema.graphql
     THEN req' = [req EXCEPT
                    !.pc = "done",
                    !.stages = Append(@, "validate"),
                    !.response = Unhandled("Must provide schema")]
     ELSE LET errors == graphqlValidate(req.schema, req.source.query)
          IN IF Len(errors) > 0
             THEN req' = [req EXCEPT
                            !.pc = "done",
                            !.stages = Append(@, "validate"),
                            !.span = SpanError(@, "graphql.validate"),
                            !.response = BadRequest(errors[1])]
             ELSE req' = [req EXCEPT !.pc = "execute", !.stages = Append(@, "validate")]
  /\ UNCHANGED server

\* lines 164-171; Graphql.validate throws when it is not given a GraphQLSchema
ValidateQuery ==
  /\ req.pc = "validate"
  /\ IF ~req.schema.graphql
     THEN req' = [req EXCEPT
                    !.pc = "done",
                    !.stages = Append(@, "validate"),
                    !.response = Unhandled("Must provide schema")]
     ELSE LET errors == graphqlValidate(req.schema, req.source.query)
          IN IF Len(errors) > 0
             THEN req' = [req EXCEPT
                            !.pc = "done",
                            !.stages = Append(@, "validate"),
                            !.span = SpanError(@, "graphql.validate"),
                            !.response = BadRequest(Join(errors, ", "))]
             ELSE req' = [req EXCEPT !.pc = "execute", !.stages = Append(@, "validate")]
  /\ UNCHANGED server

\* the entries seen through the reference to the resolver map that the
\* handler read at line 140 and hands to Graphql.execute as the root value:
\* lodash.merge (line 83) assigns into its destination and returns it, and
\* onPreStart (line 120) assigns into the same object, so that
\* server.plugins.graphi.resolvers names one object from line 30 on, the one
\* every request holds
rootValue == resolvers

\* line 173 up to the await: Graphql.execute rejects variables that are not
\* an object, fails an operation the schema has no root type for, and
\* otherwise calls the resolvers of the selected root fields
Execute ==
  /\ req.pc = "execute"
  /\ LET doc == req.source.query
     IN IF req.variables = "number"
        THEN req' = [req EXCEPT
                       !.pc = "done",
                       !.stages = Append(@, "execute"),
                       !.response = Unhandled("Variables must be provided as an Object")]
        ELSE IF OpType(doc.op) \notin req.schema.types
        THEN req' = [req EXCEPT
                       !.pc = "executing",
                       !.stages = Append(@, "execute"),
                       !.exec = [NoExec EXCEPT !.rootError = TRUE]]
        ELSE \E outs \in [DOMAIN doc.fields -> ResolverOutcomes] :
               req' = [req EXCEPT
                         !.pc = "executing",
                         !.stages = Append(@, "execute"),
                         !.exec = Walk(req.schema, rootValue, doc, outs, 1, NoExec)]
  /\ tracing' = Trace(tracing, req.schema, req.source.query, NoExec, req'.exec)
  /\ UNCHANGED untraced

\* SettleField that goes on with the entries the resolver map had when the
\* handler read it
SettleFieldSnapshot(i) ==
  /\ req.pc = "executing"
  /\ i \in DOMAIN req.exec.invoked
  /\ i \notin req.exec.settled
  /\ LET doc == req.source.query
         ex1 == [req.exec EXCEPT !.settled = @ \cup {i}]
     IN IF doc.op = "mutation" /\ ~NonNullFailure(req.schema, doc, ex1)
        THEN \E outs \in [DOMAIN doc.fields -> ResolverOutcomes] :
               req' = [req EXCEPT !.exec = Walk(req.schema, req.resolvers, doc, outs, i + 1, ex1)]
        ELSE req' = [req EXCEPT !.exec = ex1]
  /\ tracing' = Trace(tracing, req.schema, req.source.query, req.exec, req'.exec)
  /\ UNCHANGED untraced

\* a deferred value of field i settles; a mutation then goes on with the
\* fields after it
SettleField(i) ==
  /\ req.pc = "executing"
  /\ i \in DOMAIN req.exec.invoked
  /\ i \notin req.exec.settled
  /\ LET doc == req.source.query
         ex1 == [req.exec EXCEPT !.settled = @ \cup {i}]
     IN IF doc.op = "mutation" /\ ~NonNullFailure(req.schema, doc, ex1)
        THEN \E outs \in [DOMAIN doc.fields -> ResolverOutcomes] :
               req' = [req EXCEPT !.exec = Walk(req.schema, rootValue, doc, outs, i + 1, ex1)]
        ELSE req' = [req EXCEPT !.exec = ex1]
  /\ tracing' = Trace(tracing, req.schema, req.source.query, req.exec, req'.exec)
  /\ UNCHANGED untraced

\* Respond turning a result with errors into a 400
RespondErrorsAsBadRequest ==
  /\ req.pc = "executing"
  /\ ExecFinished(req.schema, req.source.query, req.exec)
  /\ LET result == ExecResult(req.schema, req.source.query, req.exec)
         span1 == IF Len(result.errors) > 0 THEN SpanError(req.span, "graphql.execute")
                  ELSE req.span
         span2 == Finish(span1)
     IN req' = [req EXCEPT
                  !.pc = "done",
                  !.span = span2,
                  !.report = Report(tracing),
                  !.response = IF Len(result.errors) > 0
                               THEN BadRequest("errors")
                               ELSE [NoResponse EXCEPT !.kind = "result", !.status = 200,
                                                       !.result = result]]
  /\ tracing' = Reset(tracing)
  /\ UNCHANGED untraced

\* the formatError function of the application, applied to one error: the
\* value it returns, made from the error it is given
formatErrorFn(error) == [error EXCEPT !.message = "formatted: " \o @]

\* Array.prototype.map(formatError)
Map(errors) == [k \in DOMAIN errors |-> formatErrorFn(errors[k])]

\* Respond that formats the first error only
RespondFormatFirst ==
  /\ req.pc = "executing"
  /\ ExecFinished(req.schema, req.source.query, req.exec)
  /\ LET result == ExecResult(req.schema, req.source.query, req.exec)
         format == Len(result.errors) > 0 /\ formatError = "function"
         span1 == IF Len(result.errors) > 0 THEN SpanError(req.span, "graphql.execute")
                  ELSE req.span
         span2 == Finish(span1)
     IN req' = [req EXCEPT
                  !.pc = "done",
                  !.span = span2,
                  !.formatCalls = IF format THEN 1 ELSE 0,
                  !.report = Report(tracing),
                  !.response = [NoResponse EXCEPT
                                  !.kind = "result", !.status = 200,
                                  !.result = IF format
                                             THEN [result EXCEPT
                                                     !.errors[1] = formatErrorFn(@)]
                                             ELSE result]]
  /\ tracing' = Reset(tracing)
  /\ UNCHANGED untraced

\* lines 174-215: the continuation after the await; result.errors is there
\* when execution has produced errors, and is mapped through
\* settings.formatError when that is a function; with tracing on, the entries
\* of the accumulator are printed and the accumulator is emptied
Respond ==
  /\ req.pc = "executing"
  /\ ExecFinished(req.schema, req.source.query, req.exec)
  /\ LET result == ExecResult(req.schema, req.source.query, req.exec)
         format == Len(result.errors) > 0 /\ formatError = "function"
         span1 == IF Len(result.errors) > 0 THEN SpanError(req.span, "graphql.execute")
                  ELSE req.span
         span2 == Finish(span1)
     IN req' = [req EXCEPT
                  !.pc = "done",
                  !.span = span2,
                  !.formatCalls = IF format THEN Len(result.errors) ELSE 0,
                  !.report = Report(tracing),
                  !.response = [NoResponse EXCEPT
                                  !.kind = "result", !.status = 200,
                                  !.result = IF format
                                             THEN [result EXCEPT !.errors = Map(@)]
                                             ELSE result]]
  /\ tracing' = Reset(tracing)
  /\ UNCHANGED untraced

\* the handler has returned: the response is sent and the request is over
RequestEnd ==
  /\ req.pc = "done"
  /\ req' = IdleRequest
  /\ UNCHANGED server

\* the entries of the accumulator when the other request becomes the one
\* that runs
Turned(tr) ==
  [tr EXCEPT !.tracingResolvers =
     [k \in DOMAIN @ |-> [@[k] EXCEPT !.by = IF @ = "req" THEN "suspended" ELSE "req"]]]

\* line 173, `await Graphql.execute(...)`: while the handler of a request
\* waits for a deferred field value, or between two requests, the event loop
\* runs the handler of another request: one that arrives, or one that was
\* waiting itself; req is the request whose handler runs, suspended the other
Switch ==
  /\ \/ req.pc = "executing" /\ suspended.pc \in {"idle", "executing"}
     \/ req.pc = "idle" /\ suspended.pc = "executing"
  /\ req' = suspended
  /\ suspended' = req
  /\ tracing' = Turned(tracing)
  /\ UNCHANGED <<schema, resolvers, registered, nes, channels, published, call, router,
                 formatError, http, build>>

\* RegisterSchema that leaves the missing transport to be found later
RegisterSchemaDeferred(in) ==
  /\ Len(registered) < MaxRegs
  /\ req.pc \in {"idle", "executing", "done"}
  /\ \E plugin \in BOOLEAN :
       LET built == IF typeofString(in.schema)
                    THEN makeExecutableSchema(in.schema, in.resolvers)
                    ELSE in.schema
           subscribed == registerSubscriptions(channels, built)
           error == IF Len(built.subscription) = 0 THEN ""
                    ELSE IF ~plugin THEN "Cannot call dependency() outside of a plugin"
                    ELSE IF ~nes THEN ""
                    ELSE subscribed.error
           thrown == IF error # "" THEN error ELSE mergeSchemasError(schema, built)
       IN /\ call' = [op |-> "registerSchema", input |-> in, error |-> thrown]
          /\ channels' = IF Len(built.subscription) > 0 /\ plugin /\ nes
                         THEN subscribed.channels ELSE channels
          /\ IF error = ""
             THEN /\ resolvers' = Merge(resolvers, in.resolvers)
                  /\ IF thrown = ""
                     THEN /\ schema' = mergeSchemas(schema, built)
                          /\ registered' = Append(registered, in)
                     ELSE UNCHANGED <<schema, registered>>
             ELSE UNCHANGED <<schema, resolvers, registered>>
  /\ UNCHANGED <<req, nes, published, router, aside>>

\* internals.registerSchema({ schema, resolvers }) with a schema document; it
\* runs between requests or while a request is suspended in execution;
\* plugin tells whether the server it is called on belongs to a plugin
\* (server.dependency asserts that); server.subscription exists only when nes
\* is registered, and throws on a channel the listener already has; the
\* resolver map is merged (line 83) when nothing has thrown so far, and the
\* schema is replaced (line 84) when the merge of the schemas does not throw
\* either; registered lists the calls that returned, call is the latest call
RegisterSchema(in) ==
  /\ Len(registered) < MaxRegs
  /\ req.pc \in {"idle", "executing", "done"}
  /\ \E plugin \in BOOLEAN :
       LET built == IF typeofString(in.schema)
                    THEN makeExecutableSchema(in.schema, in.resolvers)
                    ELSE in.schema
           subscribed == registerSubscriptions(channels, built)
           error == IF Len(built.subscription) = 0 THEN ""
                    ELSE IF ~plugin THEN "Cannot call dependency() outside of a plugin"
                    ELSE IF ~nes THEN "TypeError: server.subscription is not a function"
                    ELSE subscribed.error
           thrown == IF error # "" THEN error ELSE mergeSchemasError(schema, built)
       IN /\ call' = [op |-> "registerSchema", input |-> in, error |-> thrown]
          /\ channels' = IF Len(built.subscription) > 0 /\ plugin /\ nes
                         THEN subscribed.channels ELSE channels
          /\ IF error = ""
             THEN /\ resolvers' = Merge(resolvers, in.resolvers)
                  /\ IF thrown = ""
                     THEN /\ schema' = mergeSchemas(schema, built)
                          /\ registered' = Append(registered, in)
                     ELSE UNCHANGED <<schema, registered>>
             ELSE UNCHANGED <<schema, resolvers, registered>>
  /\ UNCHANGED <<req, nes, published, router, aside>>

\* OnPreStart that declares the fields of the routes on the Query type of the
\* active schema as well
OnPreStartDeclaring ==
  /\ ~started
  /\ req.pc \in {"idle", "executing", "done"}
  /\ started' = TRUE
  /\ resolvers' = forEachRoute(resolvers, routes, 1)
  /\ schema' = [schema EXCEPT
                  !.fields["Query"] =
                     @ \cup {resolverPath(routes[k]) :
                               k \in {j \in DOMAIN routes : Participates(routes[j])}}]
  /\ UNCHANGED <<registered, req, nes, channels, published, call, routes, authStrategy,
               aside>>

\* internals.onPreStart(server): runs once, when the server is initialized
OnPreStart ==
  /\ ~started
  /\ req.pc \in {"idle", "executing", "done"}
  /\ started' = TRUE
  /\ resolvers' = forEachRoute(resolvers, routes, 1)
  /\ UNCHANGED <<schema, registered, req, nes, channels, published, call, routes, authStrategy,
               aside>>

\* server.plugins.graphi.publish(name, obj), called between requests or while
\* a request is suspended in execution
Publish(name, obj) ==
  /\ Len(published) < MaxPublish
  /\ req.pc \in {"idle", "executing", "done"}
  /\ LET out == publish(schema, channels, name, obj)
     IN /\ call' = [op |-> "publish", input |-> [name |-> name, obj |-> obj],
                    error |-> out.error]
        /\ published' = published \o out.sent
  /\ UNCHANGED <<schema, resolvers, registered, req, nes, channels, router, aside>>

\* no client has sent a request to a route of the application yet
NoExchange == [method |-> "", path |-> "", headers |-> "none", status |-> 0, handled |-> 0]

\* the application has not called makeExecutableSchema yet
NoBuild == [called |-> FALSE]

\* what a failed makeExecutableSchema call leaves: no schema
NoAstSchema ==
  [kinds |-> EmptyMap, members |-> EmptyMap, types |-> EmptyMap, resolve |-> EmptyMap,
   props |-> EmptyMap, values |-> EmptyMap]

\* the preResolve option: absent, or the hook of the test "converts a graphql
\* schema and executes preResolve first"
PreResolves == {"none", "preResolve"}

\* Utils.makeExecutableSchema({ schema, resolvers, preResolve }) called by the
\* application (lines 13-57): the document is parsed and built, its
\* directives are applied, the resolver map is attached; when that throws the
\* call returns no schema
MakeExecutableSchema(doc, rmap, preResolve) ==
  /\ LET attached == attachFrom(doc, rmap, 1, preResolve, NoneAttached)
     IN build' = [called |-> TRUE,
                  doc |-> doc,
                  resolvers |-> rmap,
                  preResolve |-> preResolve,
                  error |-> attached.error,
                  astSchema |-> IF attached.error # "" THEN NoAstSchema
                                ELSE [kinds |-> doc.kinds,
                                      members |-> doc.members,
                                      types |-> decorateDirectives(doc),
                                      resolve |-> attached.resolve,
                                      props |-> attached.props,
                                      values |-> attached.values],
                  key |-> <<>>,
                  calls |-> <<>>,
                  value |-> ""]
  /\ UNCHANGED <<schema, resolvers, registered, req, nes, channels, published, call, router,
                 formatError, http, suspended, tracing>>

\* what calling a function the builder attached does, in order: the function
\* itself, or (lines 161-166) the hook called with (root, args, request) and
\* then resolve.call(context, root, args, request) on what the hook returned
invoke(w) ==
  IF w.hook = "none"
  THEN <<[fn |-> w.fn, receiver |-> "undefined",
          arguments |-> <<"root", "args", "request", "info">>]>>
  ELSE <<[fn |-> w.hook, receiver |-> "undefined",
          arguments |-> <<"root", "args", "request">>],
         [fn |-> w.fn, receiver |-> "result of " \o w.hook,
          arguments |-> <<"root", "args", "request">>]>>

\* the engine resolves the field of key on the schema the latest call built
CallResolver(key) ==
  /\ build.called
  /\ build.error = ""
  /\ build.calls = <<>>
  /\ key \in DOMAIN build.astSchema.resolve
  /\ build' = [build EXCEPT !.key = key,
                            !.calls = invoke(build.astSchema.resolve[key]),
                            !.value = ValueOf(build.astSchema.resolve[key].fn)]
  /\ UNCHANGED <<schema, resolvers, registered, req, nes, channels, published, call, router,
                 formatError, http, suspended, tracing>>

\* the method tokens and the paths of the requests HTTP clients send to the
\* routes of the application
ClientMethods == {"GET", "POST", "GRAPHQL"}

RoutePaths == {"/person", "/people", "/createPerson", "/foo/createPerson"}

\* String.prototype.toLowerCase on a method token
toLowerCase(method) ==
  CASE method = "GET" -> "get"
    [] method = "POST" -> "post"
    [] method = "PUT" -> "put"
    [] method = "OPTIONS" -> "options"
    [] method = "GRAPHQL" -> "graphql"

\* an HTTP parser that lets every method token through
httpParserAnyMethod(method) == TRUE

\* the HTTP parser of the listener: a request line is accepted when its method
\* token is an HTTP method the parser knows
httpParser(method) == method \in Methods

\* the route whose handler a routed request reaches: none when no route
\* matches or when the route's auth strategy turns the request away
Handled(method, url, headers) ==
  LET matching == Matching(method, url)
  IN IF matching = {} THEN 0
     ELSE LET k == CHOOSE j \in matching : TRUE
          IN IF routes[k].auth = "test" /\ headers = "none" THEN 0 ELSE k

\* test "won't serve external HTTP requests to graphql method handlers": a
\* client sends a request to a started server; a request line the parser does
\* not accept is answered 400 before any routing, another one is routed as
\* inject routes it
ExternalRequest(method, path, headers) ==
  /\ started
  /\ req.pc = "idle"
  /\ http = NoExchange
  /\ http' = IF ~httpParser(method)
             THEN [method |-> method, path |-> path, headers |-> headers,
                   status |-> 400, handled |-> 0]
             ELSE [method |-> method, path |-> path, headers |-> headers,
                   status |-> inject(toLowerCase(method), path, headers).statusCode,
                   handled |-> Handled(toLowerCase(method), path, headers)]
  /\ UNCHANGED <<schema, resolvers, registered, req, nes, channels, published, call, router,
                 formatError, build, suspended, tracing>>

\* the client has its response
ExternalEnd ==
  /\ http # NoExchange
  /\ http' = NoExchange
  /\ UNCHANGED <<schema, resolvers, registered, req, nes, channels, published, call, router,
                 formatError, build, suspended, tracing>>

\* no registerSchema or publish call has been made yet
NoCall == [op |-> "none", input |-> EmptyMap, error |-> ""]

\* exports.register without a schema option, on a server without nes;
\* registered lists the arguments of the registerSchema calls that returned
Init ==
  /\ schema = NoSchema
  /\ resolvers = EmptyMap
  /\ registered = <<>>
  /\ req = IdleRequest
  /\ nes = FALSE
  /\ channels = {}
  /\ published = <<>>
  /\ call = NoCall
  /\ routes = <<>>
  /\ started = FALSE
  /\ authStrategy = "false"
  /\ formatError = "null"
  /\ http = NoExchange
  /\ build = NoBuild
  /\ suspended = IdleRequest
  /\ tracing = NoTracing

Next ==
  \/ req.pc = "idle" /\ \E r \in Requests : GraphqlHandlerBegin(r)
  \/ DecodeVariables
  \/ ParseQuery
  \/ ValidateQuery
  \/ Execute
  \/ \E i \in 1..MaxFields : SettleField(i)
  \/ Respond
  \/ RequestEnd
  \/ \E in \in RegInputs : RegisterSchema(in)

Spec == Init /\ [][Next]_vars

\* a server whose application has added routes, with the endpoint open or
\* under the auth strategy 'test'
InitBridge ==
  /\ schema = NoSchema
  /\ resolvers = EmptyMap
  /\ registered = <<>>
  /\ req = IdleRequest
  /\ nes = FALSE
  /\ channels = {}
  /\ published = <<>>
  /\ call = NoCall
  /\ routes \in RouteTables
  /\ started = FALSE
  /\ authStrategy \in {"false", "test"}
  /\ formatError = "null"
  /\ http = NoExchange
  /\ build = NoBuild
  /\ suspended = IdleRequest
  /\ tracing = NoTracing

NextBridge ==
  \/ req.pc = "idle" /\ \E r \in BridgeRequests : RouteRequest(r)
  \/ DecodeVariables
  \/ ParseQuery
  \/ ValidateQuery
  \/ Execute
  \/ \E i \in 1..MaxFields : SettleField(i)
  \/ Respond
  \/ RequestEnd
  \/ \E in \in RegInputs : RegisterSchema(in)
  \/ OnPreStart

SpecBridge == InitBridge /\ [][NextBridge]_vars

\* the server of SpecBridge with HTTP clients that send requests to the routes
\* of the application, one exchange at a time
NextClient ==
  \/ http = NoExchange /\ req.pc = "idle" /\ \E r \in BridgeRequests : RouteRequest(r)
  \/ DecodeVariables
  \/ ParseQuery
  \/ ValidateQuery
  \/ Execute
  \/ \E i \in 1..MaxFields : SettleField(i)
  \/ Respond
  \/ RequestEnd
  \/ http = NoExchange /\ \E in \in RegInputs : RegisterSchema(in)
  \/ http = NoExchange /\ OnPreStart
  \/ \E method \in ClientMethods, path \in RoutePaths, headers \in {"none", "bearer"} :
       ExternalRequest(method, path, headers)
  \/ ExternalEnd

SpecClient == InitBridge /\ [][NextClient]_vars

\* POST /graphql without credentials
FormatRequests == {r \in BridgeRequests : r.headers = "none"}

\* exports.register with and without the formatError option: by default null,
\* a function, or a value that is not a function
InitFormat ==
  /\ schema = NoSchema
  /\ resolvers = EmptyMap
  /\ registered = <<>>
  /\ req = IdleRequest
  /\ nes = FALSE
  /\ channels = {}
  /\ published = <<>>
  /\ call = NoCall
  /\ routes = <<>>
  /\ started = FALSE
  /\ authStrategy = "false"
  /\ formatError \in {"null", "function", "string"}
  /\ http = NoExchange
  /\ build = NoBuild
  /\ suspended = IdleRequest
  /\ tracing = NoTracing

NextFormat ==
  \/ req.pc = "idle" /\ \E r \in FormatRequests : GraphqlHandlerBegin(r)
  \/ DecodeVariables
  \/ ParseQuery
  \/ ValidateQuery
  \/ Execute
  \/ \E i \in 1..MaxFields : SettleField(i)
  \/ Respond
  \/ RequestEnd
  \/ \E in \in RegInputs : RegisterSchema(in)

SpecFormat == InitFormat /\ [][NextFormat]_vars

\* exports.register with the tracing option
InitOverlap ==
  /\ schema = NoSchema
  /\ resolvers = EmptyMap
  /\ registered = <<>>
  /\ req = IdleRequest
  /\ nes = FALSE
  /\ channels = {}
  /\ published = <<>>
  /\ call = NoCall
  /\ routes = <<>>
  /\ started = FALSE
  /\ authStrategy = "false"
  /\ formatError = "null"
  /\ http = NoExchange
  /\ build = NoBuild
  /\ suspended = IdleRequest
  /\ tracing = [NoTracing EXCEPT !.enabled = TRUE]

\* two requests in flight at a time, and registrations between their steps
NextOverlap ==
  \/ req.pc = "idle" /\ \E r \in OverlapRequests : GraphqlHandlerBegin(r)
  \/ DecodeVariables
  \/ ParseQuery
  \/ ValidateQuery
  \/ Execute
  \/ \E i \in 1..MaxFields : SettleField(i)
  \/ Respond
  \/ RequestEnd
  \/ \E in \in OverlapInputs : RegisterSchema(in)
  \/ Switch

SpecOverlap == InitOverlap /\ [][NextOverlap]_vars

\* a server with nes and a tagged route, before its pre-start phase
InitServer ==
  /\ schema = NoSchema
  /\ resolvers = EmptyMap
  /\ registered = <<>>
  /\ req = IdleRequest
  /\ nes = TRUE
  /\ channels = {}
  /\ published = <<>>
  /\ call = NoCall
  /\ routes = <<EndpointRoute, TaggedCreatePerson>>
  /\ started = FALSE
  /\ authStrategy = "false"
  /\ formatError = "null"
  /\ http = NoExchange
  /\ build = NoBuild
  /\ suspended = IdleRequest
  /\ tracing = [NoTracing EXCEPT !.enabled = TRUE]

\* the components of a server side by side: the dispatcher and the wrapper
\* around the field resolvers, the registry, the pre-start phase and publish
NextServer ==
  \/ req.pc = "idle" /\ \E r \in OverlapRequests : RouteRequest(r)
  \/ DecodeVariables
  \/ ParseQuery
  \/ ValidateQuery
  \/ Execute
  \/ \E i \in 1..MaxFields : SettleField(i)
  \/ Respond
  \/ RequestEnd
  \/ \E in \in OverlapInputs \cup {[schema |-> SchemaS2, resolvers |-> EmptyMap]} :
       RegisterSchema(in)
  \/ OnPreStart
  \/ \E obj \in Payloads : Publish("personCreated", obj)

SpecServer == InitServer /\ [][NextServer]_vars

\* an application that builds a schema with makeExecutableSchema and has the
\* engine resolve its fields
NextBuilder ==
  \/ ~build.called /\ \E doc \in BuildDocs, rmap \in ResolverMaps, preResolve \in PreResolves :
       MakeExecutableSchema(doc, rmap, preResolve)
  \/ \E key \in {<<e.type, e.field>> : e \in Entries} : CallResolver(key)

SpecBuilder == Init /\ [][NextBuilder]_vars

\* a server with or without nes registered before graphi
InitRegistry ==
  /\ schema = NoSchema
  /\ resolvers = EmptyMap
  /\ registered = <<>>
  /\ req = IdleRequest
  /\ nes \in BOOLEAN
  /\ channels = {}
  /\ published = <<>>
  /\ call = NoCall
  /\ routes = <<>>
  /\ started = FALSE
  /\ authStrategy = "false"
  /\ formatError = "null"
  /\ http = NoExchange
  /\ build = NoBuild
  /\ suspended = IdleRequest
  /\ tracing = NoTracing

\* schemas with and without a subscription root type are registered and events
\* are published
NextRegistry ==
  \/ \E in \in RegInputs \cup LaterInputs \cup SubscriptionInputs : RegisterSchema(in)
  \/ \E name \in EventNames, obj \in Payloads : Publish(name, obj)

SpecRegistry == InitRegistry /\ [][NextRegistry]_vars

\* subscription schemas are registered and events are published with objects
\* of any content
NextPublish ==
  \/ \E in \in SubscriptionInputs : RegisterSchema(in)
  \/ \E name \in EventNames, obj \in Payloads \cup EdgePayloads : Publish(name, obj)

SpecPublish == InitRegistry /\ [][NextPublish]_vars

\* schemas are registered, and resolver maps without a schema
NextPartial ==
  \E in \in RegInputs \cup SubscriptionInputs \cup ObjectInputs : RegisterSchema(in)

SpecPartial == InitRegistry /\ [][NextPartial]_vars

---------------------------------------------------------------------------
(* Properties *)

StageOrder == <<"decode", "parse", "validate", "execute">>

Ran(stage) == stage \in Range(req.stages)

\* the request has left the handler with a whole-response failure
WholeResponseFailure ==
  /\ req.pc = "done"
  /\ req.response.kind \in {"boom", "exception"}
  /\ req.response.status >= 400
  /\ req.response.result = NoResult

DecodeFailed == Ran("decode") /\ tryParseVariables(req.source.variables) = "Boom400"

ParseFailed == Ran("parse") /\ ~graphqlParseOk(req.source.query)

ValidateFailed ==
  /\ Ran("validate")
  /\ ~req.schema.defined \/ Len(graphqlValidate(req.schema, req.source.query)) > 0

\* the resolvers called for the request so far
Calls == {i \in DOMAIN req.exec.invoked : req.exec.invoked[i].resolver # "none"}

\* C1: a request whose method is not OPTIONS runs variable decoding, query
\* parsing, static validation and execution in that order, each at most once;
\* execution starts only after the first three succeeded, and a failure of one
\* of them ends the dispatch with a whole-response failure, no later stage run.
C1_StagesInOrder ==
  /\ Len(req.stages) <= Len(StageOrder)
  /\ req.stages = SubSeq(StageOrder, 1, Len(req.stages))
  /\ Ran("execute") => ~DecodeFailed /\ ~ParseFailed /\ ~ValidateFailed
  /\ DecodeFailed => WholeResponseFailure /\ req.stages = <<"decode">>
  /\ ParseFailed => WholeResponseFailure /\ req.stages = <<"decode", "parse">>
  /\ ValidateFailed => WholeResponseFailure /\ req.stages = <<"decode", "parse", "validate">>
  /\ (DecodeFailed \/ ParseFailed \/ ValidateFailed) => req.exec = NoExec

\* a dispatch that validation ended, after decoding and parsing succeeded
C1_Witness ==
  /\ req.pc = "done"
  /\ req.input.method = "POST"
  /\ req.schema.defined
  /\ ValidateFailed
  /\ req.response.status = 400

\* C2: variables that are a non-empty string and not valid JSON give HTTP 400
\* whatever the query is, and the query is not parsed, validated or executed.
C2_InvalidVariables ==
  (req.source.variables = "invalid" /\ req.pc # "decode")
    => /\ req.pc = "done"
       /\ req.response.kind = "boom"
       /\ req.response.status = 400
       /\ req.stages = <<"decode">>
       /\ Calls = {}
       /\ req.exec = NoExec

\* malformed variables next to a query that is valid on the active schema
C2_Witness ==
  /\ req.pc = "done"
  /\ req.source.variables = "invalid"
  /\ req.source.query = PlainDoc
  /\ req.schema.defined
  /\ graphqlValidate(req.schema, PlainDoc) = <<>>
  /\ req.response.status = 400

\* C3: when the dispatcher parses a query text with a syntax error, the
\* response is HTTP 400 with the parser's diagnostic as message, and the
\* query is neither validated nor executed (no resolver is called).
C3_SyntaxError ==
  (Ran("parse") /\ req.source.query.kind = "syntaxError")
    => /\ req.pc = "done"
       /\ req.response.kind = "boom"
       /\ req.response.status = 400
       /\ req.response.message = graphqlParseMessage(req.source.query)
       /\ ~Ran("validate")
       /\ ~Ran("execute")
       /\ Calls = {}

\* a malformed query sent to a server that has a schema
C3_Witness ==
  /\ req.pc = "done"
  /\ req.schema.defined
  /\ req.source.query = SyntaxErrorQuery
  /\ req.response.status = 400
  /\ req.stages = <<"decode", "parse">>

\* the selected fields the operation's root type does not define
UndefinedFields(sch, doc) ==
  {i \in DOMAIN doc.fields : doc.fields[i] \notin sch.fields[OpType(doc.op)]}

FailedFields == {i \in req.exec.settled : Failed(req.exec.invoked[i].outcome)}

SucceededFields ==
  {i \in req.exec.settled : req.exec.invoked[i].outcome \in {"value", "promise"}}

InErrors(f) ==
  \E k \in DOMAIN req.response.result.errors : req.response.result.errors[k].field = f

HasValue(i) ==
  /\ ~req.response.result.dataNull
  /\ req.source.query.fields[i] \in DOMAIN req.response.result.data
  /\ req.response.result.data[req.source.query.fields[i]]
       = FieldValue(req.exec.invoked[i])

\* C5 as stated: a failing resolver leaves the status at 200, shows in errors,
\* and the data of every sibling whose resolver succeeded is in the response.
C5_Original ==
  (req.pc = "done" /\ FailedFields # {})
    => /\ req.response.status = 200
       /\ req.response.kind = "result"
       /\ \A i \in FailedFields : InErrors(req.source.query.fields[i])
       /\ \A j \in SucceededFields : HasValue(j)

\* C5 (amended): a failing resolver leaves the status at 200 and shows as an
\* entry of errors; the data of the siblings whose resolvers succeeded is in
\* the response unless a failed field is declared non-null, and then data is
\* null as a whole.
C5_FieldErrors ==
  (req.pc = "done" /\ FailedFields # {})
    => /\ req.response.status = 200
       /\ req.response.kind = "result"
       /\ \A i \in FailedFields : InErrors(req.source.query.fields[i])
       /\ IF \E i \in FailedFields : req.source.query.fields[i] \in req.schema.nonNull
          THEN req.response.result.dataNull
          ELSE \A j \in SucceededFields : HasValue(j)

\* one field failed, its sibling's value is in data
C5_Witness ==
  /\ req.pc = "done"
  /\ FailedFields # {}
  /\ SucceededFields # {}
  /\ \A j \in SucceededFields : HasValue(j)
  /\ Len(req.response.result.errors) = 1

C7_Source ==
  (req.pc # "idle" /\ req.input.method # "OPTIONS")
    => /\ req.source = IF req.input.method = "GET" THEN req.input.query
                       ELSE IF req.input.hasPayload THEN req.input.payload
                       ELSE EmptySource
       /\ (req.pc = "done" /\ req.input.method # "GET" /\ ~req.input.hasPayload)
            => /\ req.response.kind = "boom"
               /\ req.response.status = 400
               /\ req.stages = <<"decode", "parse">>

\* a POST without body whose URL carries a query the schema can answer
C7_Witness ==
  /\ req.pc = "done"
  /\ req.input.method = "POST"
  /\ ~req.input.hasPayload
  /\ req.input.query = PlainSource
  /\ req.schema.defined
  /\ graphqlValidate(req.schema, PlainDoc) = <<>>
  /\ req.response.status = 400

\* C8: an OPTIONS request is answered at once with a pass-through 2xx: no
\* span is started, no source read, no variables decoded, and the query is
\* not parsed, validated or executed, whatever the request carries.
C8_Options ==
  (req.pc # "idle" /\ req.input.method = "OPTIONS")
    => /\ req.pc = "done"
       /\ req.response = Continue
       /\ req.response.status \in 200..299
       /\ req.span = NoSpan
       /\ req.source = EmptySource
       /\ req.variables = "undefined"
       /\ req.stages = <<>>
       /\ req.exec = NoExec

\* a traced OPTIONS request with a body that holds malformed variables
C8_Witness ==
  /\ req.pc = "done"
  /\ req.input.method = "OPTIONS"
  /\ req.input.traced
  /\ req.input.hasPayload
  /\ req.input.payload.variables = "invalid"
  /\ schema.defined
  /\ req.response.status = 200

\* the fields the registered schemas declare on a root type
Declared(t) == UNION {registered[k].schema.fields[t] : k \in DOMAIN registered}

DeclaredTypes == UNION {registered[k].schema.types : k \in DOMAIN registered}

RegisteredResolvers == UNION {Range(registered[k].resolvers) : k \in DOMAIN registered}

\* a finished request that read the server's schema after two registrations
AfterTwoRegistrations ==
  /\ Len(registered) >= 2
  /\ req.registrations = Len(registered)
  /\ req.pc = "done"
  /\ Ran("validate")

CreatePersonDoc ==
  [kind |-> "doc", op |-> "mutation", fields |-> <<"createPerson">>, directive |-> "none"]

\* schema1 registered, then schema2, and a request dispatched on the result
AfterOverwriteTest ==
  /\ registered = <<[schema |-> SchemaA, resolvers |-> ResolversA],
                    [schema |-> SchemaB, resolvers |-> ResolversB]>>
  /\ req.pc = "done"
  /\ req.registrations = 2
  /\ req.input.method = "POST"
  /\ req.source.variables = "absent"

LatestNaming(p) ==
  CHOOSE k \in DOMAIN registered :
     /\ p \in DOMAIN registered[k].resolvers
     /\ \A j \in DOMAIN registered : j > k => p \notin DOMAIN registered[j].resolvers

\* the (type, field) entries of registration k that name a type of its schema
TypeEntries(k) ==
  {p \in DOMAIN registered[k].resolvers : Len(p) = 2 /\ p[1] \in registered[k].schema.types}

SameAgain ==
  /\ call.op = "registerSchema"
  /\ call.error = ""
  /\ call'.op = "registerSchema"
  /\ call'.input = call.input
  /\ registered' # registered \/ call' # call

\* C12: registering the exact same (schema, resolver map) pair twice in a row
\* succeeds and leaves the server as registering it once did: the second call
\* returns, and the resolver map, the resolvers attached to the fields of the
\* schema and the channels are those the first call left.
C12_Original ==
  [][SameAgain => /\ call'.error = ""
                  /\ resolvers' = resolvers
                  /\ schema' = schema
                  /\ channels' = channels]_vars

\* the schema handed to the latest registerSchema call has a subscription type
SubscriptionCall ==
  /\ call.op = "registerSchema"
  /\ Len(call.input.schema.subscription) > 0

\* C13: on a server without nes, a registerSchema call for a schema with a
\* subscription root type throws during that call: no such schema is ever
\* among the registered ones, the active schema has no subscription field and
\* no channel exists, so nothing is left to fail at a publish or a request.
C13_WithoutNes ==
  ~nes => /\ SubscriptionCall => call.error # ""
          /\ \A k \in DOMAIN registered : Len(registered[k].schema.subscription) = 0
          /\ Len(schema.subscription) = 0
          /\ channels = {}
          /\ published = <<>>

\* test "will throw for subscription schemas when nes isn't registered": the
\* registration made by the plugin for options.schema throws
C13_Witness ==
  /\ ~nes
  /\ call.op = "registerSchema"
  /\ call.input.schema = SchemaS1
  /\ call.error = "TypeError: server.subscription is not a function"
  /\ registered = <<>>

\* `/` + field name, then one `{argName}` segment per declared argument
ExpectedPattern(field) ==
  "/" \o Join(<<field.name>> \o [i \in DOMAIN field.args |-> "{" \o field.args[i] \o "}"], "/")

\* the subscription fields of the schema a registerSchema step has registered
NewFields == registered'[Len(registered')].schema.subscription

\* C14: a registerSchema call that registers a schema with a subscription root
\* type adds exactly one channel per field of that type, and the channel's
\* pattern is `/` + field name followed by one `/{argName}` per declared
\* argument in declaration order; the channels that existed stay.
C14_Channels ==
  [][(registered' # registered /\ Len(NewFields) > 0)
       => /\ channels \subseteq channels'
          /\ Cardinality(channels' \ channels) = Len(NewFields)
          /\ {c.path : c \in channels' \ channels}
               = {ExpectedPattern(NewFields[i]) : i \in DOMAIN NewFields}]_vars

\* the schema with two subscription fields is registered: two channels, the
\* parameters of personUpdated in declaration order
C14_Witness ==
  /\ registered = <<[schema |-> SchemaS3, resolvers |-> EmptyMap]>>
  /\ {c.path : c \in channels}
       = {"/personUpdated/{lastname}/{firstname}", "/personCreated/{firstname}"}

\* a publish step that returned
PublishReturned ==
  /\ call'.op = "publish"
  /\ call'.error = ""
  /\ published' # published \/ call' # call

\* the value of obj[argName] as a path segment
SegmentOf(obj, arg) == IF arg \in DOMAIN obj THEN obj[arg] ELSE "undefined"

\* `/` + event name, then one segment per declared argument holding obj[argName]
ExpectedPath(field, obj) ==
  "/" \o Join(<<field.name>> \o [i \in DOMAIN field.args |-> SegmentOf(obj, field.args[i])], "/")

\* the field of the active schema's subscription type with that name
SubscriptionField(name) ==
  schema.subscription[CHOOSE i \in DOMAIN schema.subscription :
                        schema.subscription[i].name = name]

\* C15: a publish call that returns hands the payload to the transport once,
\* on the path `/eventName` followed by one segment per argument the field
\* declares, holding payload[argName] in declaration order; only subscribers
\* of that very path receive it: a subscriber on /personCreated/john receives
\* the payload with firstname john and not the one with firstname foo, and a
\* subscriber on /personCreated/foo does not receive the john payload.
C15_PublishPath ==
  [][PublishReturned
       => LET name == call'.input.name
              obj == call'.input.obj
              field == SubscriptionField(name)
              sent == published'[Len(published')]
          IN /\ published' = Append(published, sent)
             /\ sent.message = obj
             /\ sent.path = ExpectedPath(field, obj)
             /\ Len(field.args) = 0 => sent.path = "/" \o name
             /\ sent.to \subseteq {sent.path}
             /\ (name = "personCreated" /\ field.args = <<"firstname">>
                   /\ SegmentOf(obj, "firstname") = "john")
                  => sent.to = {"/personCreated/john"}
             /\ "/personCreated/john" \in sent.to => SegmentOf(obj, "firstname") = "john"
             /\ "/personCreated/foo" \in sent.to => SegmentOf(obj, "firstname") = "foo"]_vars

\* test "will handle graphql subscription with arguments published through
\* graphi": foo is published, then john; the subscriber on /personCreated/john
\* receives the second payload only
C15_Witness ==
  /\ Len(published) = 2
  /\ published[1].path = "/personCreated/foo"
  /\ "/personCreated/john" \notin published[1].to
  /\ published[2].path = "/personCreated/john"
  /\ published[2].to = {"/personCreated/john"}
  /\ published[2].message = [firstname |-> "john", lastname |-> "smith"]

\* the names of the fields of the active schema's subscription type
SubscriptionNames == {schema.subscription[i].name : i \in DOMAIN schema.subscription}

\* a publish step for an event that is not a subscription field
PublishUnknown ==
  /\ call'.op = "publish"
  /\ published' # published \/ call' # call
  /\ call'.input.name \notin SubscriptionNames

\* C16: publish with an event name that is not a field of the active schema's
\* subscription root type throws to its caller and hands nothing to the
\* transport.
C16_UnknownEvent ==
  [][PublishUnknown => call'.error # "" /\ published' = published]_vars

\* an unknown event published on a schema that has subscription fields
C16_Witness ==
  /\ call.op = "publish"
  /\ call.input.name = "nosuch"
  /\ SubscriptionNames = {"personCreated"}
  /\ call.error = "TypeError: Cannot read property 'args' of undefined"
  /\ published = <<>>

\* the step in which the pre-start phase runs
PreStartStep == ~started /\ started'

\* the routes that have the reserved method or the reserved tag
Participating == {k \in DOMAIN routes : Participates(routes[k])}

\* C17: when the pre-start phase has run, the resolver map holds the bridge
\* resolver of every route whose method is graphql or whose tags contain
\* graphql, one resolver per such route, and no bridge resolver of any other
\* route.
C17_Original ==
  [][PreStartStep
       => /\ \A k \in Participating :
               \E p \in DOMAIN resolvers' : resolvers'[p] = BridgeName[k]
          /\ \A p \in DOMAIN resolvers' :
               IsBridge(resolvers'[p]) => RouteOf(resolvers'[p]) \in Participating]_vars

\* the path of a route after its realm prefix and the `/` that follows it
FieldNameOf(route) == CHOOSE t \in Tails : route.prefix \o "/" \o t = route.path

\* the last route of the table that participates under the field name of route k
LastNamed(k) ==
  CHOOSE j \in Participating :
     /\ FieldNameOf(routes[j]) = FieldNameOf(routes[k])
     /\ \A i \in Participating : FieldNameOf(routes[i]) = FieldNameOf(routes[k]) => i <= j

\* every bridge resolver called for a request was called for the field that has
\* the name of its route, and has addressed the route's full path
BridgeCallsByName ==
  \A i \in DOMAIN req.exec.invoked :
     IsBridge(req.exec.invoked[i].resolver)
       => LET route == routes[RouteOf(req.exec.invoked[i].resolver)]
          IN /\ req.source.query.fields[i] = FieldNameOf(route)
             /\ req.exec.invoked[i].url = route.path

\* C18: the pre-start phase stores the resolver of a participating route under
\* the route's path without its realm prefix and without the leading `/`
\* (/createPerson, and /foo/createPerson under the prefix /foo, both give
\* createPerson); a request for that field calls the route at its full path.
C18_FieldName ==
  [][/\ PreStartStep
          => \A k \in Participating :
                /\ <<FieldNameOf(routes[k])>> \in DOMAIN resolvers'
                /\ resolvers'[<<FieldNameOf(routes[k])>>] = BridgeName[LastNamed(k)]
     /\ BridgeCallsByName']_vars

\* test "will handle graphql requests to resolver routes inside a plugin when
\* configured with prefix": the mutation createPerson is answered by the route
\* /foo/createPerson
C18_Witness ==
  /\ routes = <<EndpointRoute, PluginCreatePerson, OpenPeople>>
  /\ started
  /\ req.pc = "done"
  /\ req.source.query.fields = <<"createPerson">>
  /\ DOMAIN req.exec.invoked = {1}
  /\ req.exec.invoked[1].resolver = BridgeName[2]
  /\ req.exec.invoked[1].url = "/foo/createPerson"
  /\ req.response.status = 200
  /\ ~req.response.result.dataNull
  /\ req.response.result.data["createPerson"] = "result of graphql /foo/createPerson"

\* the request has been answered with an execution result
Answered == req.pc = "done" /\ req.response.kind = "result"

\* the fields of the request whose resolver is a bridge resolver and has settled
BridgeCalls ==
  {i \in req.exec.settled : IsBridge(req.exec.invoked[i].resolver)}

\* the error of field i carries the call's message, status code and
\* error classification
CarriesReply(i) ==
  \E k \in DOMAIN req.response.result.errors :
     LET e == req.response.result.errors[k]
         reply == req.exec.invoked[i].reply
     IN /\ e.field = req.source.query.fields[i]
        /\ e.message = reply.message
        /\ e.statusCode = reply.statusCode
        /\ e.data.error = reply.error

\* every field of the request has been resolved, and those that succeeded
\* have their value in the data
SiblingsResolved ==
  \A j \in DOMAIN req.source.query.fields :
     /\ j \in req.exec.settled
     /\ j \in SucceededFields => HasValue(j)

EndpointRejects == authStrategy # "false" /\ req.input.headers = "none"

\* the route behind bridge call i has rejected the forwarded headers
RouteRejects(i) ==
  /\ routes[RouteOf(req.exec.invoked[i].resolver)].auth = "test"
  /\ req.input.headers = "none"

\* field i has failed with the field-level error Missing authentication
MissingAuthentication(i) ==
  /\ i \in FailedFields
  /\ \E k \in DOMAIN req.response.result.errors :
        /\ req.response.result.errors[k].field = req.source.query.fields[i]
        /\ req.response.result.errors[k].message = "Missing authentication"

\* every field that has failed is a bridge call its route has rejected
OnlyRejections ==
  \A k \in req.exec.settled :
     FieldFailed(req.schema, req.source.query, req.exec, k)
       => k \in BridgeCalls /\ RouteRejects(k)

\* C20 as stated: a request the endpoint's authStrategy rejects gets a
\* whole-request 401 and the dispatcher never runs; when the endpoint admits
\* the request and a bridge route with its own auth rejects it, only that
\* field fails, with the error Missing authentication in a 200 response, and
\* the fields of routes that do not reject it have their values (read for
\* the requests in which nothing but such a rejection has failed).
C20_Original ==
  req.pc = "done"
    => /\ EndpointRejects
            => req.response = Unauthorized /\ req.stages = <<>> /\ req.exec = NoExec
       /\ (~EndpointRejects /\ Answered)
            => \A i \in BridgeCalls :
                  IF RouteRejects(i)
                  THEN MissingAuthentication(i) /\ req.response.status = 200
                  ELSE (/\ req.exec.invoked[i].reply.statusCode < 400
                        /\ OnlyRejections)
                         => HasValue(i)

\* C20 (amended): a request the endpoint's authStrategy rejects gets a
\* whole-request 401 and the dispatcher never runs; a request the endpoint
\* admits is never answered 401: when a bridge route with its own auth rejects
\* it, that field fails with the error Missing authentication in a 200
\* response, and the fields of routes that do not reject it are resolved and
\* have their values unless a failed field is declared non-null, in which
\* case the data is null as a whole.
C20_TwoBoundaries ==
  req.pc = "done"
    => /\ EndpointRejects
            => req.response = Unauthorized /\ req.stages = <<>> /\ req.exec = NoExec
       /\ ~EndpointRejects => req.response.status # 401
       /\ (~EndpointRejects /\ Answered)
            => \A i \in BridgeCalls :
                  IF RouteRejects(i)
                  THEN MissingAuthentication(i) /\ req.response.status = 200
                  ELSE req.exec.invoked[i].reply.statusCode < 400
                         => /\ i \in SucceededFields
                            /\ IF req.response.result.dataNull
                               THEN \E k \in req.exec.settled :
                                       /\ FieldFailed(req.schema, req.source.query, req.exec, k)
                                       /\ req.source.query.fields[k] \in req.schema.nonNull
                               ELSE HasValue(i)

\* the endpoint is open (authStrategy false) and the request has no
\* credentials: the field of the route with auth 'test' fails with Missing
\* authentication, the field of the open route is served, the status is 200
C20_Witness ==
  /\ authStrategy = "false"
  /\ formatError = "null"
  /\ http = NoExchange
  /\ build = NoBuild
  /\ suspended = IdleRequest
  /\ tracing = NoTracing
  /\ req.pc = "done"
  /\ req.input.headers = "none"
  /\ req.source.query.fields = <<"people", "person">>
  /\ BridgeCalls = {1, 2}
  /\ RouteRejects(1)
  /\ MissingAuthentication(1)
  /\ ~RouteRejects(2)
  /\ HasValue(2)
  /\ req.response.status = 200

Places(event, f) ==
  {k \in DOMAIN req.exec.trace :
     req.exec.trace[k].event = event /\ req.exec.trace[k].field = f}

\* C22: for every field the execution has resolved there is exactly one
\* preFieldResolver notification, before the field's resolver is called, and
\* exactly one postFieldResolver notification, after it.
C22_Original ==
  \A i \in DOMAIN req.exec.invoked :
     LET f == req.source.query.fields[i]
     IN /\ Cardinality(Places("preFieldResolver", f)) = 1
        /\ Cardinality(Places("postFieldResolver", f)) = 1
        /\ \A a \in Places("preFieldResolver", f), b \in Places("postFieldResolver", f) :
              /\ a < b
              /\ \A c \in Places("resolve", f) : a < c /\ c < b

\* the errors execution has produced for the request that has been answered
RawErrors == ExecResult(req.schema, req.source.query, req.exec).errors

\* C23: in a response with an execution result, when execution has produced
\* errors and formatError is a function, the errors of the response are, entry
\* by entry and in the same order, what the function returned for the errors
\* of the execution, and the function was called once per error; when there
\* are no errors, or formatError is not a function, the function is not called
\* and the result is returned as executed.
C23_FormatError ==
  Answered
    => IF Len(RawErrors) > 0 /\ formatError = "function"
       THEN /\ DOMAIN req.response.result.errors = DOMAIN RawErrors
            /\ \A k \in DOMAIN RawErrors :
                  req.response.result.errors[k] = formatErrorFn(RawErrors[k])
            /\ req.formatCalls = Len(RawErrors)
       ELSE /\ req.response.result
                 = ExecResult(req.schema, req.source.query, req.exec)
            /\ req.formatCalls = 0

\* two fields have failed and the response carries both errors, formatted, in
\* the order of the fields
C23_Witness ==
  /\ Answered
  /\ formatError = "function"
  /\ Len(RawErrors) = 2
  /\ req.formatCalls = 2
  /\ req.response.result.errors[1].message = "formatted: " \o RawErrors[1].message
  /\ req.response.result.errors[2].message = "formatted: " \o RawErrors[2].message
  /\ RawErrors[1].field # RawErrors[2].field

\* C24: when a dispatch that opened a request span has ended, the span has
\* been finished, whatever branch the dispatch took.
C24_Original ==
  (req.pc = "done" /\ req.span.started) => req.span.finished >= 1

\* the error events on the request span
ErrorEvents ==
  {k \in DOMAIN req.span.log :
     req.span.log[k] \in {"error:tryParseVariables", "error:graphql.parse",
                          "error:graphql.validate", "error:graphql.execute"}}

\* the span has exactly one error event, of the given method, after the
\* onGraphQL entry and before the span was first finished
OneErrorEvent(method) ==
  /\ req.span.log[1] = "onGraphQL"
  /\ \E k \in ErrorEvents :
        /\ ErrorEvents = {k}
        /\ req.span.log[k] = "error:" \o method
        /\ k > 1
        /\ req.span.finished >= 1
        /\ k <= req.span.logged

\* C30: when a dispatch with an open request span has ended, a failure to
\* decode the variables, a syntax error, validation errors and an execution
\* that produced errors have each logged exactly one error event on the span,
\* after the onGraphQL entry and before the span was finished; a dispatch that
\* returned a result without errors has logged no error event.
C30_ErrorEvents ==
  (req.pc = "done" /\ req.span.started)
    => /\ DecodeFailed => OneErrorEvent("tryParseVariables")
       /\ ParseFailed => OneErrorEvent("graphql.parse")
       /\ (ValidateFailed /\ req.schema.defined) => OneErrorEvent("graphql.validate")
       /\ (Answered /\ Len(req.response.result.errors) > 0)
            => OneErrorEvent("graphql.execute")
       /\ (Answered /\ Len(req.response.result.errors) = 0) => ErrorEvents = {}

\* a traced request whose resolver failed: onGraphQL, then the error event,
\* then the span is finished
C30_Witness ==
  /\ req.pc = "done"
  /\ req.span.started
  /\ Answered
  /\ FailedFields # {}
  /\ req.span.log = <<"onGraphQL", "error:graphql.execute">>
  /\ req.span.logged = 2

\* an entry of the resolver map that does not fit the type it is filed under,
\* a type of the document: its value is not a function, or it names a value
\* the enum lacks, or a field the object or interface type lacks
Mismatch(doc, e) ==
  /\ e.type \in DOMAIN doc.kinds
  /\ e.field # ""
  /\ \/ e.value # "function"
     \/ doc.kinds[e.type] = "enum" /\ e.field \notin doc.members[e.type]
     \/ doc.kinds[e.type] \in {"object", "interface"} /\ e.field \notin doc.members[e.type]

\* C25: a makeExecutableSchema call whose resolver map holds, under a type of
\* the schema, a value that is not a function, an enum value the enum does not
\* define, or a field the object or interface type does not define, has
\* raised an error and returned no schema.
C25_BuildErrors ==
  (build.called /\ \E k \in DOMAIN build.resolvers : Mismatch(build.doc, build.resolvers[k]))
    => /\ build.error # ""
       /\ build.astSchema = NoAstSchema
       /\ build.calls = <<>>

\* test "errors when resolver missing from schema": a resolver for
\* Query.human, after one that fits
C25_Witness ==
  /\ build.called
  /\ build.resolvers = <<[type |-> "Query", field |-> "person", value |-> "function"],
                         [type |-> "Query", field |-> "human", value |-> "function"]>>
  /\ build.error # ""
  /\ build.astSchema = NoAstSchema

\* C26: a makeExecutableSchema call whose resolver map holds a sub-map of
\* fields under a key that names no type of the schema has raised an error.
C26_Original ==
  (build.called
     /\ \E k \in DOMAIN build.resolvers :
           /\ build.resolvers[k].type \notin DOMAIN build.doc.kinds
           /\ build.resolvers[k].field # "")
    => build.error # ""

\* C27: when a field resolver of a schema built with a preResolve hook has
\* been called, the hook was called first, once, with (root, args, request),
\* then the original resolver, once, on the hook's result as receiver, and
\* the value is the original resolver's.
C27_PreResolve ==
  (build.called /\ build.preResolve # "none" /\ build.calls # <<>>)
    => /\ Len(build.calls) = 2
       /\ build.calls[1].fn = build.preResolve
       /\ build.calls[1].arguments = <<"root", "args", "request">>
       /\ build.calls[2].fn = build.key[1] \o "." \o build.key[2]
       /\ build.calls[2].receiver = "result of " \o build.preResolve
       /\ build.value = ValueOf(build.calls[2].fn)

\* test "converts a graphql schema and executes preResolve first":
\* Person.firstname resolved on a schema built with the hook
C27_Witness ==
  /\ build.called
  /\ build.preResolve = "preResolve"
  /\ build.key = <<"Person", "firstname">>
  /\ Len(build.calls) = 2
  /\ build.calls[2].receiver = "result of preResolve"

\* the directives of the built document that sit on a place and name a scalar
\* factory
Known(pl) ==
  {k \in DOMAIN build.doc.directives :
     build.doc.directives[k].place = pl /\ build.doc.directives[k].name \in Scalars}

\* C28: in a schema makeExecutableSchema has built, the type of a field or of
\* an argument differs from the declared one exactly when a directive on it
\* names a scalar factory, and then it is the scalar the factory makes of that
\* directive's arguments; directives of other names change nothing and raise
\* no error.
C28_Original ==
  (build.called /\ build.resolvers = <<>>)
    => /\ build.error = ""
       /\ \A pl \in DirectivePlaces :
             IF Known(pl) = {}
             THEN build.astSchema.types[pl] = Plain(pl)
             ELSE \E k \in Known(pl) :
                    LET d == build.doc.directives[k]
                    IN build.astSchema.types[pl] = createScalar(d.name, d.arguments)

\* C29 as stated: a bridge resolver called for a field has made exactly one
\* call into the router, with the method graphql (the captured method of a
\* route of that method, the fixed method for a tagged route), the URL prefix
\* + "/" + field name, the field's arguments as payload and the headers of the
\* GraphQL request.
C29_Original ==
  \A i \in DOMAIN req.exec.invoked :
     IsBridge(req.exec.invoked[i].resolver)
       => LET k == RouteOf(req.exec.invoked[i].resolver)
              f == req.source.query.fields[i]
          IN req.exec.invoked[i].injected
               = <<[method |-> "graphql",
                    url |-> routes[k].prefix \o "/" \o f,
                    payload |-> ArgsOf(f),
                    headers |-> req.input.headers]>>

\* C29 (amended): a bridge resolver called for a field has made exactly one
\* call into the router, with the method of its route (graphql for a route of
\* that method, the route's own verb for a tagged route), the URL prefix + "/"
\* + field name, the field's arguments as payload and the headers of the
\* GraphQL request; no other resolver calls into the router.
C29_InternalCall ==
  \A i \in DOMAIN req.exec.invoked :
     IF IsBridge(req.exec.invoked[i].resolver)
     THEN LET k == RouteOf(req.exec.invoked[i].resolver)
              f == req.source.query.fields[i]
          IN /\ Participates(routes[k])
             /\ req.exec.invoked[i].injected
                  = <<[method |-> routes[k].method,
                       url |-> routes[k].prefix \o "/" \o f,
                       payload |-> ArgsOf(f),
                       headers |-> req.input.headers]>>
     ELSE req.exec.invoked[i].injected = <<>>

\* test "will handle graphql POST requests with mutations served from mutation
\* routes": the mutation createPerson is served by the tagged POST route,
\* called with the method post
C29_Witness ==
  /\ Answered
  /\ req.source.query.op = "mutation"
  /\ req.source.query.fields = <<"createPerson">>
  /\ BridgeCalls = {1}
  /\ routes[RouteOf(req.exec.invoked[1].resolver)] = TaggedCreatePerson
  /\ req.exec.invoked[1].injected[1].method = "post"
  /\ req.exec.invoked[1].injected[1].url = "/createPerson"
  /\ req.exec.invoked[1].reply.statusCode = 200
  /\ HasValue(1)

\* C34: the request span is finished at most once per request, whatever
\* branch the dispatch takes.
C34_Original == req.span.finished <= 1

\* C35: a request whose variables are absent, an object, or a string of valid
\* JSON goes on to query parsing once the variables are decoded, and its
\* response is never the variables value.
C35_Original ==
  (Ran("decode")
     /\ req.source.variables \in {"absent", "object", "jsonObject", "jsonBoomLike", "jsonNumber"})
    => /\ req.response.kind # "variables"
       /\ req.pc = "done" => Ran("parse")

\* C39: the original resolver of a field wired with a preResolve hook is
\* called with the (parent value, arguments, context, field metadata) the
\* engine passes to the composed resolver.
C39_Original ==
  (build.called /\ build.preResolve # "none" /\ build.calls # <<>>)
    => \E k \in DOMAIN build.calls :
          /\ build.calls[k].fn = build.key[1] \o "." \o build.key[2]
          /\ build.calls[k].arguments = <<"root", "args", "request", "info">>

\* C40: a request that the dispatcher handles while the server has no schema
\* (and whose variables decode) ends with a 400-class error response, not with
\* an exception, and its span, if one was opened, is finished.
C40_Original ==
  (req.pc = "done"
     /\ req.input.method # "OPTIONS"
     /\ ~req.schema.defined
     /\ ~variablesIsBoom(req.variables))
    => /\ req.response.kind = "boom"
       /\ req.response.status \in 400..499
       /\ req.span.started => req.span.finished >= 1

\* C38: every path publish has handed to the transport matches a channel
\* pattern registered for a subscription field of that event name: the event
\* name, then one non-empty segment per declared argument.
C38_Original ==
  \A k \in DOMAIN published :
     \E c \in channels : Matches(published[k].path, c)

\* C36: a registerSchema call that raises leaves the active schema and the
\* active resolver map as they were before the call.
C36_Original ==
  [][(call' # call /\ call'.op = "registerSchema" /\ call'.error # "")
       => schema' = schema /\ resolvers' = resolvers]_vars

\* a step of the request that runs, not a turn to the other request
SameRequest == suspended' = suspended

\* the fields whose resolvers a step has called
NewlyInvoked == DOMAIN req'.exec.invoked \ DOMAIN req.exec.invoked

\* C33: a request whose dispatch begins after registerSchema calls have
\* returned reads the pair they left, and is validated against that schema
\* until it ends; every field it resolves is resolved with the entries the
\* resolver map has at that moment, those written by a registration that
\* completed meanwhile included.
C33_NoIsolation ==
  [][SameRequest
       => /\ (req.pc = "idle" /\ req'.pc = "decode")
               => /\ req'.schema = schema
                  /\ req'.resolvers = resolvers
                  /\ req'.registrations = Len(registered)
          /\ (req.pc \notin {"idle", "done"} /\ req'.pc # "idle") => req'.schema = req.schema
          /\ \A i \in NewlyInvoked :
                req'.exec.invoked[i].resolver
                  = ResolverOf(req.schema, resolvers, OpType(req.source.query.op),
                               req.source.query.fields[i])]_vars

\* a mutation validated against the schema of the first registration alone,
\* whose second field is resolved by a resolver that the second registration
\* wrote while the first field was pending
C33_Witness ==
  /\ req.pc = "executing"
  /\ req.source.query.op = "mutation"
  /\ req.source.query.fields = <<"createPerson", "person">>
  /\ Ran("validate")
  /\ req.registrations = 1
  /\ Len(registered) = 2
  /\ req.schema = makeExecutableSchema(SchemaM, ResolversB)
  /\ schema # req.schema
  /\ <<"person">> \notin DOMAIN req.resolvers
  /\ registered[2].resolvers = ResolversA
  /\ 2 \in DOMAIN req.exec.invoked
  /\ req.exec.invoked[2].resolver = "getPerson"

\* C32: a resolver map obtained before a registerSchema call, such as the
\* root value of a request in flight, has the same entries after the call
\* has returned.
C32_Original ==
  [][(req.pc = "executing" /\ registered' # registered) => rootValue' = rootValue]_vars

\* the fields of the request that were resolved through the wrapper
OwnFields ==
  {req.source.query.fields[i] : i \in
     {j \in DOMAIN req.exec.invoked :
        ViaFieldResolver(req.schema, OpType(req.source.query.op), req.source.query.fields[j])}}

\* C37: with tracing on, the rows a request prints when it ends are those of
\* its own field resolutions, also when another request is in flight, and the
\* accumulator is empty when no request is in flight.
C37_Original ==
  /\ (req.pc = "done" /\ req.response.kind = "result" /\ tracing.enabled)
       => /\ \A row \in req.report : row.own
          /\ {row.fieldName : row \in req.report} = OwnFields
          /\ Cardinality(req.report) = Cardinality(OwnFields)
  /\ (req.pc = "idle" /\ suspended.pc = "idle") => tracing.tracingResolvers = <<>>

\* a registerSchema call
RegistryStep ==
  /\ call'.op = "registerSchema"
  /\ registered' # registered \/ call' # call

\* the pre-start phase
BridgeStep == ~started /\ started'

====
